---------------------------- MODULE Spec2Model ----------------------------
(***************************************************************************)
(* Simulation and scoring engine of sim_game: the shared engagement        *)
(* system (scheduler and tick processor), the suspicion engine, the three  *)
(* chapter controllers and the derived scores.                             *)
(*                                                                         *)
(* Number representation (the source uses IEEE doubles):                   *)
(*   - simulated time (state.inGameMinutes, timeSincePostMinutes) is kept  *)
(*     in quarter minutes; a real-time delta of 1250 ms is one quarter     *)
(*     minute (REAL_MS_TO_GAME_MINUTES = 0.2 / 1000);                      *)
(*   - suspicion (state.suspicionMeter, suspicionDelta) is kept in         *)
(*     thousandths of a point, so the meter range [0,100] is [0,100000];   *)
(*   - hiddenBanRiskScore is kept in percent, rule-set weights in tenths;  *)
(*   - the triage time budget and its costs are kept in quarter minutes.   *)
(* Every value the modelled populations produce is exact in these units.   *)
(***************************************************************************)
EXTENDS Integers, Sequences, FiniteSets, TLC

VARIABLES
    state,                \* the GameState object (src/src/core/types.ts:196)
    lastResult,           \* operation and return value of the last engine call
    chapter3State,        \* module state of chapter3Logic
    timeBudget,           \* module state of chapter2Logic
    currentAccountIndex,
    triageQueue,
    processedAccounts,
    isComplete,           \* the active scene's isComplete flag
    hist                  \* history of the run, read only by the properties

vars == <<state, lastResult, chapter3State, timeBudget, currentAccountIndex,
          triageQueue, processedAccounts, isComplete, hist>>

--------------------------------------------------------------------------
(* Helpers                                                                 *)

Max(a, b) == IF a >= b THEN a ELSE b

Min(a, b) == IF a <= b THEN a ELSE b

Range(s) == {s[i] : i \in 1..Len(s)}

Count(s, P(_)) == Cardinality({i \in 1..Len(s) : P(s[i])})

RECURSIVE SumInts(_)
SumInts(s) ==
    IF Len(s) = 0 THEN 0
    ELSE IF Len(s) = 1 THEN s[1]
    ELSE SumInts(SubSeq(s, 1, Len(s) \div 2)) + SumInts(SubSeq(s, Len(s) \div 2 + 1, Len(s)))

SumSeq(s, F(_)) == SumInts([i \in 1..Len(s) |-> F(s[i])])

\* floor(inGameMinutes) of a time held in quarter minutes
FloorMinute(q) == q \div 4

--------------------------------------------------------------------------
(* Program constants                                                       *)

MAX_ACTIONS_PER_MINUTE == 15

MAX_ACTIONS_PER_ACCOUNT_PER_HOUR == 10

CLUSTER_WINDOW == 5

RULE_CHANGE_MINUTE == 40

CHAPTER_DURATION == 120

MAX_COUNTERMEASURE_UPDATES == 3

\* thousandths of a point
SUSPICION_THRESHOLDS ==
    [warning |-> 40000, elevated |-> 60000, critical |-> 80000, maximum |-> 100000]

\* hundredths of a point
BASE_SUSPICION ==
    [like |-> 50, reply |-> 150, retweet |-> 100, quote |-> 200, profileVisit |-> 20]

\* weights in tenths
BASELINE_RULES ==
    [id |-> "baseline", weightClusterSynchrony |-> 10, weightRepeatReplyTone |-> 10,
     weightGeoLanguageMismatch |-> 10, weightHighValueAccountOveruse |-> 10]

POST_CHANGE_RULES ==
    [id |-> "post_change", weightClusterSynchrony |-> 20, weightRepeatReplyTone |-> 15,
     weightGeoLanguageMismatch |-> 18, weightHighValueAccountOveruse |-> 20]

\* quarter minutes
TIME_COSTS ==
    [openAccountDetail |-> 4, changeProfileField |-> 2, togglePersonaTag |-> 2,
     revealHistoryFlag |-> 3, makeTriageDecision |-> 2, changeRiskClass |-> 2]

EngagementActionTypes == {"like", "reply", "retweet", "quote", "profileVisit"}

ReplyTones == {"highSignalCT", "farming", "normieQuestion", "subtleShill", "technicalCritique"}

NoTone == "none"

SceneOrder == <<"intro", "chapter1", "chapter2", "chapter3", "summary">>

--------------------------------------------------------------------------
(* Telemetry                                                               *)

\* logEvent: append {t, chapterId, type, payload}; t is Date.now()
logEvent(s, chapterId, type, payload, now) ==
    [s EXCEPT !.telemetryLog =
        Append(@, [t |-> now, chapterId |-> chapterId, type |-> type, payload |-> payload])]

--------------------------------------------------------------------------
(* Suspicion engine                                                        *)

FindAccount(s, accountId) == SelectSeq(s.accounts, LAMBDA a : a.id = accountId)

FindTweet(s, tweetId) == SelectSeq(s.tweets, LAMBDA t : t.id = tweetId)

\* tenths of a point
calculateClusterSynchrony(tweetId, s, windowMinutes) ==
    LET currentMinute == s.inGameMinutes
        recent == Count(s.engagements, LAMBDA e :
                      /\ e.tweetId = tweetId
                      /\ 4 * e.inGameMinute >= currentMinute - 4 * windowMinutes
                      /\ 4 * e.inGameMinute <= currentMinute)
    IN  IF recent > 10 THEN 30
        ELSE IF recent > 5 THEN 15
        ELSE IF recent > 3 THEN 5
        ELSE 0

calculateRepetitionFactor(accountId, tweetId, s) ==
    LET found == FindTweet(s, tweetId)
    IN  IF found = <<>> THEN 0
        ELSE
          LET tweet == found[1]
              authorTweetIds == {t.id : t \in {u \in Range(s.tweets) : u.authorType = tweet.authorType}}
              engagementCount == Count(s.engagements, LAMBDA e :
                                     e.accountId = accountId /\ e.tweetId \in authorTweetIds)
          IN  IF engagementCount > 10 THEN 20
              ELSE IF engagementCount > 5 THEN 10
              ELSE IF engagementCount > 2 THEN 3
              ELSE 0

calculatePersonaMismatch(account, action) ==
      (IF "normie" \in account.persona /\ action.replyTone = "technicalCritique" THEN 15 ELSE 0)
    + (IF "defi" \notin account.persona /\ action.replyTone = "highSignalCT" THEN 5 ELSE 0)
    + (IF ("builder" \in account.persona \/ "devAnon" \in account.persona)
           /\ action.replyTone = "farming" THEN 10 ELSE 0)

calculateHighValueOveruse(accountId, s, windowMinutes) ==
    LET currentMinute == s.inGameMinutes
        recent == Count(s.engagements, LAMBDA e :
                      /\ e.accountId = accountId
                      /\ 4 * e.inGameMinute >= currentMinute - 4 * windowMinutes)
    IN  IF recent > 5 THEN 20
        ELSE IF recent > 3 THEN 10
        ELSE IF recent > 1 THEN 3
        ELSE 0

\* variant: the persona mismatch is weighted as in the baseline rule set
calculateSuspicionDelta_mismatchUnweighted(action, s, ruleSet) ==
    LET found == FindAccount(s, action.accountId)
    IN  IF found = <<>> THEN 0
        ELSE
          LET account == found[1]
              base == BASE_SUSPICION[action.type]
              f1 == calculateClusterSynchrony(action.tweetId, s, CLUSTER_WINDOW)
                      * ruleSet.weightClusterSynchrony
              f2 == calculateRepetitionFactor(action.accountId, action.tweetId, s)
                      * ruleSet.weightRepeatReplyTone
              f3 == calculatePersonaMismatch(account, action) * 10
              f4 == IF account.riskClass = "frontline"
                    THEN calculateHighValueOveruse(action.accountId, s, 30)
                           * ruleSet.weightHighValueAccountOveruse
                    ELSE 0
              suspicion == ((base + f1 + f2 + f3 + f4) * (200 + account.hiddenBanRiskScore)) \div 20
          IN  Max(0, suspicion)

\* thousandths of a point
calculateSuspicionDelta(action, s, ruleSet) ==
    LET found == FindAccount(s, action.accountId)
    IN  IF found = <<>> THEN 0
        ELSE
          LET account == found[1]
              base == BASE_SUSPICION[action.type]
              f1 == calculateClusterSynchrony(action.tweetId, s, CLUSTER_WINDOW)
                      * ruleSet.weightClusterSynchrony
              f2 == calculateRepetitionFactor(action.accountId, action.tweetId, s)
                      * ruleSet.weightRepeatReplyTone
              f3 == calculatePersonaMismatch(account, action)
                      * ruleSet.weightGeoLanguageMismatch
              f4 == IF account.riskClass = "frontline"
                    THEN calculateHighValueOveruse(action.accountId, s, 30)
                           * ruleSet.weightHighValueAccountOveruse
                    ELSE 0
              suspicion == ((base + f1 + f2 + f3 + f4) * (200 + account.hiddenBanRiskScore)) \div 20
          IN  Max(0, suspicion)

\* variant: the meter is only floored at 0
updateSuspicionMeter_noCeiling(s, delta) ==
    [s EXCEPT !.suspicionMeter = Max(0, @ + delta)]

updateSuspicionMeter(s, delta) ==
    [s EXCEPT !.suspicionMeter = Max(0, Min(SUSPICION_THRESHOLDS.maximum, @ + delta))]

\* 0.5 point per in-game minute = 125 thousandths per quarter minute
decaySuspicion(s, deltaMinutes) ==
    LET decay == deltaMinutes * 125
    IN  [s EXCEPT !.suspicionMeter = Max(0, @ - decay)]

checkSuspicionThresholds(s) ==
    IF s.suspicionMeter >= SUSPICION_THRESHOLDS.critical THEN "critical"
    ELSE IF s.suspicionMeter >= SUSPICION_THRESHOLDS.elevated THEN "elevated"
    ELSE IF s.suspicionMeter >= SUSPICION_THRESHOLDS.warning THEN "warning"
    ELSE "none"

SetStatus(s, accountId, status) ==
    [s EXCEPT !.accounts =
        [i \in 1..Len(@) |-> IF @[i].id = accountId THEN [@[i] EXCEPT !.status = status] ELSE @[i]]]

\* random is the value of Math.random() scaled to 0..99, i.e. floor(100 * Math.random())
PickVictim(candidates, random) == candidates[((random * Len(candidates)) \div 100) + 1]

\* variant: the critical level bans every active frontline account
applySuspicionPenalties_allFrontline(s, level, random) ==
    IF level = "critical" THEN
        [state |-> [s EXCEPT !.accounts =
                       [i \in 1..Len(@) |->
                           IF @[i].status = "active" /\ @[i].riskClass = "frontline"
                           THEN [@[i] EXCEPT !.status = "banned"] ELSE @[i]]],
         notices |-> << [kind |-> "banned", account |-> "-"] >>]
    ELSE IF level = "elevated" THEN
        LET activeAccounts == SelectSeq(s.accounts, LAMBDA a : a.status = "active")
        IN  IF Len(activeAccounts) > 0
            THEN [state |-> SetStatus(s, PickVictim(activeAccounts, random).id, "flagged"),
                  notices |-> << [kind |-> "flagged",
                                  account |-> PickVictim(activeAccounts, random).id] >>]
            ELSE [state |-> s, notices |-> <<>>]
    ELSE IF level = "warning" THEN
        [state |-> s, notices |-> << [kind |-> "rising", account |-> "-"] >>]
    ELSE [state |-> s, notices |-> <<>>]

\* variant: the victim is drawn from all accounts, whatever their status
applySuspicionPenalties_anyStatus(s, level, random) ==
    IF level = "critical" THEN
        LET frontlineAccounts == SelectSeq(s.accounts, LAMBDA a : a.riskClass = "frontline")
        IN  IF Len(frontlineAccounts) > 0
            THEN [state |-> SetStatus(s, PickVictim(frontlineAccounts, random).id, "banned"),
                  notices |-> << [kind |-> "banned",
                                  account |-> PickVictim(frontlineAccounts, random).id] >>]
            ELSE [state |-> s, notices |-> <<>>]
    ELSE IF level = "elevated" THEN
        IF Len(s.accounts) > 0
        THEN [state |-> SetStatus(s, PickVictim(s.accounts, random).id, "flagged"),
              notices |-> << [kind |-> "flagged", account |-> PickVictim(s.accounts, random).id] >>]
        ELSE [state |-> s, notices |-> <<>>]
    ELSE IF level = "warning" THEN
        [state |-> s, notices |-> << [kind |-> "rising", account |-> "-"] >>]
    ELSE [state |-> s, notices |-> <<>>]

\* returns the new state and the notices
applySuspicionPenalties(s, level, random) ==
    IF level = "critical" THEN
        LET frontlineAccounts ==
                SelectSeq(s.accounts, LAMBDA a : a.status = "active" /\ a.riskClass = "frontline")
        IN  IF Len(frontlineAccounts) > 0
            THEN LET victim == PickVictim(frontlineAccounts, random)
                 IN  [state |-> SetStatus(s, victim.id, "banned"),
                      notices |-> << [kind |-> "banned", account |-> victim.id] >>]
            ELSE [state |-> s, notices |-> <<>>]
    ELSE IF level = "elevated" THEN
        LET activeAccounts == SelectSeq(s.accounts, LAMBDA a : a.status = "active")
        IN  IF Len(activeAccounts) > 0
            THEN LET victim == PickVictim(activeAccounts, random)
                 IN  [state |-> SetStatus(s, victim.id, "flagged"),
                      notices |-> << [kind |-> "flagged", account |-> victim.id] >>]
            ELSE [state |-> s, notices |-> <<>>]
    ELSE IF level = "warning" THEN
        [state |-> s, notices |-> << [kind |-> "rising", account |-> "-"] >>]
    ELSE [state |-> s, notices |-> <<>>]

--------------------------------------------------------------------------
(* Shared engagement system                                                *)

\* deltaMs * REAL_MS_TO_GAME_MINUTES, in quarter minutes
ToGameMinutes(deltaMs) == deltaMs \div 1250

initEngagementSystem(s) ==
    [s EXCEPT !.engagementQueue = <<>>,
              !.systemNotices = <<>>,
              !.actionIdCounter = 0,
              !.inGameMinutes = 0,
              !.suspicionMeter = 0]

RECURSIVE TrimNotices(_)
TrimNotices(n) == IF Len(n) > 20 THEN TrimNotices(Tail(n)) ELSE n

addSystemNotice(s, notices) ==
    [s EXCEPT !.systemNotices = TrimNotices(@ \o notices)]

\* variant: only the pending queue is consulted
hasAccountEngagedTweet_queueOnly(s, accountId, tweetId, type) ==
    \E i \in 1..Len(s.engagementQueue) :
        /\ s.engagementQueue[i].accountId = accountId
        /\ s.engagementQueue[i].tweetId = tweetId
        /\ s.engagementQueue[i].type = type

hasAccountEngagedTweet(s, accountId, tweetId, type) ==
    LET alreadyExecuted == \E i \in 1..Len(s.engagements) :
                              /\ s.engagements[i].accountId = accountId
                              /\ s.engagements[i].tweetId = tweetId
                              /\ s.engagements[i].type = type
        alreadyQueued == \E i \in 1..Len(s.engagementQueue) :
                              /\ s.engagementQueue[i].accountId = accountId
                              /\ s.engagementQueue[i].tweetId = tweetId
                              /\ s.engagementQueue[i].type = type
    IN  IF alreadyExecuted THEN TRUE ELSE alreadyQueued

\* the pacing check of scheduleEngagement
AccountActionsInHour(s, accountId, scheduledMinute) ==
    Count(s.engagementQueue, LAMBDA e :
        /\ e.accountId = accountId
        /\ e.scheduledMinute >= scheduledMinute - 60
        /\ e.scheduledMinute <= scheduledMinute)

\* variant: no duplicate check, only the pacing check
scheduleEngagement_pacingOnly(s, accountId, tweetId, type, scheduledMinute, replyTone) ==
    IF AccountActionsInHour(s, accountId, scheduledMinute) >= MAX_ACTIONS_PER_ACCOUNT_PER_HOUR
    THEN [state |-> s, result |-> FALSE]
    ELSE [state |-> [s EXCEPT !.engagementQueue =
                        Append(@, [accountId |-> accountId, tweetId |-> tweetId, type |-> type,
                                   replyTone |-> replyTone, scheduledMinute |-> scheduledMinute])],
          result |-> TRUE]

\* returns the new state and the boolean result
\* variant: the action is pushed before the pacing check
scheduleEngagement_pushFirst(s, accountId, tweetId, type, scheduledMinute, replyTone) ==
    IF hasAccountEngagedTweet(s, accountId, tweetId, type)
    THEN [state |-> s, result |-> FALSE]
    ELSE [state |-> [s EXCEPT !.engagementQueue =
                        Append(@, [accountId |-> accountId, tweetId |-> tweetId, type |-> type,
                                   replyTone |-> replyTone, scheduledMinute |-> scheduledMinute])],
          result |-> AccountActionsInHour(s, accountId, scheduledMinute)
                        < MAX_ACTIONS_PER_ACCOUNT_PER_HOUR]

scheduleEngagement(s, accountId, tweetId, type, scheduledMinute, replyTone) ==
    IF hasAccountEngagedTweet(s, accountId, tweetId, type)
    THEN [state |-> s, result |-> FALSE]
    ELSE IF AccountActionsInHour(s, accountId, scheduledMinute) >= MAX_ACTIONS_PER_ACCOUNT_PER_HOUR
    THEN [state |-> s, result |-> FALSE]
    ELSE [state |-> [s EXCEPT !.engagementQueue =
                        Append(@, [accountId |-> accountId, tweetId |-> tweetId, type |-> type,
                                   replyTone |-> replyTone, scheduledMinute |-> scheduledMinute])],
          result |-> TRUE]

WaveDelay(pattern, index) ==
    IF pattern = "burst" THEN index \div 3
    ELSE IF pattern = "staggered" THEN index * 2
    ELSE index * 5

\* if (scheduleEngagement(...)) scheduled++; w is the state and the count so
\* far, r the result of the call
WaveAccept(w, r) ==
    [state |-> r.state, result |-> IF r.result THEN w.result + 1 ELSE w.result]

\* variant: the wave ends at the first account that is not accepted
RECURSIVE WaveLoop_stopAtReject(_, _, _, _, _, _, _)
WaveLoop_stopAtReject(w, accountIds, index, tweetId, type, pattern, startMinute) ==
    IF index >= Len(accountIds) THEN w
    ELSE IF ~scheduleEngagement(w.state, accountIds[index + 1], tweetId, type,
                                startMinute + WaveDelay(pattern, index), NoTone).result
    THEN w
    ELSE WaveLoop_stopAtReject(
             WaveAccept(w, scheduleEngagement(w.state, accountIds[index + 1], tweetId, type,
                                              startMinute + WaveDelay(pattern, index), NoTone)),
             accountIds, index + 1, tweetId, type, pattern, startMinute)

\* accountIds.forEach((accountId, index) => ...), index counted from 0
RECURSIVE WaveLoop(_, _, _, _, _, _, _)
WaveLoop(w, accountIds, index, tweetId, type, pattern, startMinute) ==
    IF index >= Len(accountIds) THEN w
    ELSE WaveLoop(WaveAccept(w, scheduleEngagement(w.state, accountIds[index + 1], tweetId, type,
                                                   startMinute + WaveDelay(pattern, index), NoTone)),
                  accountIds, index + 1, tweetId, type, pattern, startMinute)

scheduleEngagementWave(s, accountIds, tweetId, type, pattern, startMinute) ==
    WaveLoop([state |-> s, result |-> 0], accountIds, 0, tweetId, type, pattern, startMinute)

clearAccountEngagements(s, accountId) ==
    LET before == Len(s.engagementQueue)
        kept == SelectSeq(s.engagementQueue, LAMBDA e : e.accountId # accountId)
    IN  [state |-> [s EXCEPT !.engagementQueue = kept], result |-> before - Len(kept)]

\* floor(base * riskMultiplier * max(0.3, 1 - ageMinutes / 180))
calculateReachDelta(action, tweet, riskClass) ==
    LET base == CASE action.type = "like" -> 15
                  [] action.type = "reply" -> 60
                  [] action.type = "retweet" -> 120
                  [] action.type = "quote" -> 80
                  [] action.type = "profileVisit" -> 5
                  [] OTHER -> 0
        twiceRiskMultiplier == IF riskClass = "frontline" THEN 6
                               ELSE IF riskClass = "mid" THEN 3 ELSE 2
        ageMinutes == tweet.liveMetrics.timeSincePostMinutes
        timeMultiplier720 == Max(216, 720 - ageMinutes)
    IN  (base * twiceRiskMultiplier * timeMultiplier720) \div 1440

calculateDepthDelta(action) ==
    IF action.type = "reply" THEN
        CASE action.replyTone = "highSignalCT" -> 5
          [] action.replyTone = "technicalCritique" -> 4
          [] action.replyTone = "normieQuestion" -> 2
          [] action.replyTone = "subtleShill" -> 1
          [] action.replyTone = "farming" -> 0
          [] OTHER -> 2
    ELSE IF action.type = "quote" THEN 3
    ELSE IF action.type = "retweet" THEN 1
    ELSE 0

\* the effects of one executed action on its tweet
ApplyToTweet(tweet, action) ==
    [tweet EXCEPT
        !.liveMetrics.impressions = @ + action.reachDelta,
        !.liveMetrics.depthScore = @ + action.depthDelta,
        !.liveMetrics.likes = IF action.type = "like" THEN @ + 1 ELSE @,
        !.liveMetrics.retweets = IF action.type = "retweet" THEN @ + 1 ELSE @,
        !.liveMetrics.replies = IF action.type = "reply" THEN @ + 1 ELSE @,
        !.liveMetrics.quotes = IF action.type = "quote" THEN @ + 1 ELSE @]

\* A tick record k = [state, notices, processedActions] carries the GameState and
\* the two accumulators of updateEngagementSystem through the loops.

\* const action: EngagementAction = {...}; s is the state after ++actionIdCounter
\* variant: the record carries the minute the clock has reached
CreateAction_clockMinute(s, scheduled, minute) ==
    [id |-> s.actionIdCounter, inGameMinute |-> FloorMinute(s.inGameMinutes),
     accountId |-> scheduled.accountId, tweetId |-> scheduled.tweetId,
     type |-> scheduled.type, replyTone |-> scheduled.replyTone,
     suspicionDelta |-> 0, reachDelta |-> 0, depthDelta |-> 0]

CreateAction(s, scheduled, minute) ==
    [id |-> s.actionIdCounter, inGameMinute |-> minute,
     accountId |-> scheduled.accountId, tweetId |-> scheduled.tweetId,
     type |-> scheduled.type, replyTone |-> scheduled.replyTone,
     suspicionDelta |-> 0, reachDelta |-> 0, depthDelta |-> 0]

\* "Calculate effects"
CalculateEffects(action, s, account, tweet, ruleSet) ==
    [action EXCEPT
        !.suspicionDelta = calculateSuspicionDelta(action, s, ruleSet),
        !.reachDelta = calculateReachDelta(action, tweet, account.riskClass),
        !.depthDelta = calculateDepthDelta(action)]

\* variant: the stored action takes its id from the wall clock
ApplyEffects_stamped(s, action, now) ==
    logEvent([updateSuspicionMeter(s, action.suspicionDelta) EXCEPT
                 !.tweets = [i \in 1..Len(@) |->
                               IF @[i].id = action.tweetId THEN ApplyToTweet(@[i], action) ELSE @[i]],
                 !.engagements = Append(@, [action EXCEPT !.id = now])],
             "engagement", "engagement_executed",
             [accountId |-> action.accountId, tweetId |-> action.tweetId,
              type |-> action.type, suspicionDelta |-> action.suspicionDelta], now)

\* "Apply effects", "Store the engagement", "Log telemetry"
ApplyEffects(s, action, now) ==
    logEvent([updateSuspicionMeter(s, action.suspicionDelta) EXCEPT
                 !.tweets = [i \in 1..Len(@) |->
                               IF @[i].id = action.tweetId THEN ApplyToTweet(@[i], action) ELSE @[i]],
                 !.engagements = Append(@, action)],
             "engagement", "engagement_executed",
             [accountId |-> action.accountId, tweetId |-> action.tweetId,
              type |-> action.type, suspicionDelta |-> action.suspicionDelta], now)

\* the body of the for loop of processEngagementsForMinute once the account is
\* known to be active; s is the state after ++actionIdCounter
PerformAction(s, scheduled, minute, ruleSet, now, account, tweet) ==
    ApplyEffects(s, CalculateEffects(CreateAction(s, scheduled, minute), s, account, tweet, ruleSet),
                 now)

\* variant: an action is executed whatever the status of its account
ExecuteScheduled_anyStatus(k, scheduled, minute, ruleSet, now) ==
    IF FindAccount(k.state, scheduled.accountId) = <<>> \/ FindTweet(k.state, scheduled.tweetId) = <<>>
    THEN k
    ELSE [k EXCEPT !.state = PerformAction([@ EXCEPT !.actionIdCounter = @ + 1], scheduled,
                                           minute, ruleSet, now,
                                           FindAccount(k.state, scheduled.accountId)[1],
                                           FindTweet(k.state, scheduled.tweetId)[1])]

\* the body of the for loop of processEngagementsForMinute
ExecuteScheduled(k, scheduled, minute, ruleSet, now) ==
    LET fa == FindAccount(k.state, scheduled.accountId)
        ft == FindTweet(k.state, scheduled.tweetId)
    IN  IF fa = <<>> \/ ft = <<>> THEN k
        ELSE IF fa[1].status # "active"
        THEN [k EXCEPT !.notices = Append(@, [kind |-> "skipped", account |-> scheduled.accountId])]
        ELSE [k EXCEPT !.state = PerformAction([@ EXCEPT !.actionIdCounter = @ + 1], scheduled,
                                               minute, ruleSet, now, fa[1], ft[1])]

RECURSIVE ProcessLoop(_, _, _, _, _)
ProcessLoop(k, items, minute, ruleSet, now) ==
    IF items = <<>> THEN k
    ELSE ProcessLoop(ExecuteScheduled(k, Head(items), minute, ruleSet, now),
                     Tail(items), minute, ruleSet, now)

\* variant: everything queued for the minute is executed
processEngagementsForMinute_noCap(k, minute, ruleSet, now) ==
    LET toProcess == SelectSeq(k.state.engagementQueue, LAMBDA e : e.scheduledMinute = minute)
    IN  ProcessLoop(
          [state |-> [k.state EXCEPT !.engagementQueue =
                         SelectSeq(@, LAMBDA e : e.scheduledMinute # minute)],
           notices |-> IF Len(toProcess) > MAX_ACTIONS_PER_MINUTE
                       THEN Append(k.notices, [kind |-> "dropped", account |-> "-"])
                       ELSE k.notices,
           processedActions |-> k.processedActions + Len(toProcess)],
          toProcess, minute, ruleSet, now)

\* variant: the actions due in the minute are taken newest first
processEngagementsForMinute_newestFirst(k, minute, ruleSet, now) ==
    LET due == SelectSeq(k.state.engagementQueue, LAMBDA e : e.scheduledMinute = minute)
        toProcess == [i \in 1..Len(due) |-> due[Len(due) + 1 - i]]
        actionsToProcess == SubSeq(toProcess, 1, Min(Len(toProcess), MAX_ACTIONS_PER_MINUTE))
    IN  ProcessLoop(
          [state |-> [k.state EXCEPT !.engagementQueue =
                         SelectSeq(@, LAMBDA e : e.scheduledMinute # minute)],
           notices |-> IF Len(toProcess) > MAX_ACTIONS_PER_MINUTE
                       THEN Append(k.notices, [kind |-> "dropped", account |-> "-"])
                       ELSE k.notices,
           processedActions |-> k.processedActions + Len(actionsToProcess)],
          actionsToProcess, minute, ruleSet, now)

\* variant: the actions beyond the cap stay in the queue
processEngagementsForMinute_keepRest(k, minute, ruleSet, now) ==
    LET toProcess == SelectSeq(k.state.engagementQueue, LAMBDA e : e.scheduledMinute = minute)
        actionsToProcess == SubSeq(toProcess, 1, Min(Len(toProcess), MAX_ACTIONS_PER_MINUTE))
    IN  ProcessLoop(
          [state |-> [k.state EXCEPT !.engagementQueue =
                         SelectSeq(@, LAMBDA e : e.scheduledMinute # minute)
                           \o SubSeq(toProcess, Len(actionsToProcess) + 1, Len(toProcess))],
           notices |-> IF Len(toProcess) > MAX_ACTIONS_PER_MINUTE
                       THEN Append(k.notices, [kind |-> "dropped", account |-> "-"])
                       ELSE k.notices,
           processedActions |-> k.processedActions + Len(actionsToProcess)],
          actionsToProcess, minute, ruleSet, now)

\* processedCount and notices are added to the accumulators of the caller
processEngagementsForMinute(k, minute, ruleSet, now) ==
    LET toProcess == SelectSeq(k.state.engagementQueue, LAMBDA e : e.scheduledMinute = minute)
        actionsToProcess == SubSeq(toProcess, 1, Min(Len(toProcess), MAX_ACTIONS_PER_MINUTE))
    IN  ProcessLoop(
          [state |-> [k.state EXCEPT !.engagementQueue =
                         SelectSeq(@, LAMBDA e : e.scheduledMinute # minute)],
           notices |-> IF Len(toProcess) > MAX_ACTIONS_PER_MINUTE
                       THEN Append(k.notices, [kind |-> "dropped", account |-> "-"])
                       ELSE k.notices,
           processedActions |-> k.processedActions + Len(actionsToProcess)],
          actionsToProcess, minute, ruleSet, now)

\* floor((baseOrganicReach / 120) * deltaMinutes * max(0.1, 1 - ageMinutes / 120))
updateTweetMetrics(s, deltaMinutes) ==
    [s EXCEPT !.tweets = [i \in 1..Len(@) |->
        LET ageMinutes == @[i].liveMetrics.timeSincePostMinutes + deltaMinutes
            organicGrowth == (@[i].baseOrganicReach * deltaMinutes * Max(48, 480 - ageMinutes))
                                \div 230400
        IN  [@[i] EXCEPT
                !.liveMetrics.timeSincePostMinutes = ageMinutes,
                !.liveMetrics.impressions = IF ageMinutes < 480 THEN @ + organicGrowth ELSE @]]]

\* for (minute = previousMinute + 1; minute <= currentMinute; minute++)
RECURSIVE MinuteLoop(_, _, _, _, _)
MinuteLoop(k, minute, currentMinute, ruleSet, now) ==
    IF minute > currentMinute THEN k
    ELSE IF \A i \in 1..Len(k.state.engagementQueue) :
                k.state.engagementQueue[i].scheduledMinute # minute
    THEN \* nothing is queued for the minute: the call changes nothing
         MinuteLoop(k, minute + 1, currentMinute, ruleSet, now)
    ELSE MinuteLoop(processEngagementsForMinute(k, minute, ruleSet, now),
                    minute + 1, currentMinute, ruleSet, now)

FindRuleSet(s, id) == SelectSeq(s.ruleSets, LAMBDA r : r.id = id)

\* ruleSet || state.ruleSets.find(r => r.id === 'baseline') || state.ruleSets[0];
\* ruleSet is optional: <<>> when omitted, <<r>> when given
ActiveRuleSet(s, ruleSet) ==
    IF ruleSet # <<>> THEN ruleSet[1]
    ELSE IF FindRuleSet(s, "baseline") # <<>> THEN FindRuleSet(s, "baseline")[1]
    ELSE s.ruleSets[1]

\* "Update tweet metrics over time", "Natural suspicion decay"
AfterDecay(k, deltaMinutes) ==
    [k EXCEPT !.state = decaySuspicion(updateTweetMetrics(@, deltaMinutes), deltaMinutes)]

\* notices.push(...penaltyNotices); addSystemNotice(state, ...penaltyNotices);
\* p is the result of applySuspicionPenalties
WithPenalties(k, p) ==
    [k EXCEPT !.state = addSystemNotice(p.state, p.notices), !.notices = @ \o p.notices]

\* "Check for threshold penalties (only once per minute to avoid spam)"
ThresholdCheck(k, minuteCrossed, random) ==
    IF minuteCrossed /\ checkSuspicionThresholds(k.state) # "none"
    THEN WithPenalties(k, applySuspicionPenalties(k.state, checkSuspicionThresholds(k.state), random))
    ELSE k

\* random is the draw of Math.random(); returns the new state with the notices
\* and processedActions of the call
updateEngagementSystem(s, deltaMs, ruleSet, random, now) ==
    LET deltaMinutes == ToGameMinutes(deltaMs)
        previousMinute == FloorMinute(s.inGameMinutes)
        currentMinute == FloorMinute(s.inGameMinutes + deltaMinutes)
    IN  ThresholdCheck(
            AfterDecay(
                MinuteLoop([state |-> [s EXCEPT !.inGameMinutes = @ + deltaMinutes],
                            notices |-> <<>>, processedActions |-> 0],
                           previousMinute + 1, currentMinute, ActiveRuleSet(s, ruleSet), now),
                deltaMinutes),
            currentMinute > previousMinute, random)

--------------------------------------------------------------------------
(* Chapter 1 logic: thin wrapper                                           *)

initChapter1(s, now) ==
    logEvent(initEngagementSystem(s), "chapter1", "chapter_start",
             [accountCount |-> Len(s.accounts), tweetCount |-> Len(s.tweets)], now)

\* const ruleSet = state.ruleSets.find(r => r.id === 'baseline') || state.ruleSets[0]
updateChapter1(s, deltaMs, random, now) ==
    updateEngagementSystem(s, deltaMs, << ActiveRuleSet(s, <<>>) >>, random, now)

--------------------------------------------------------------------------
(* Chapter 3 logic: rule change and countermeasures                        *)

\* a quotient of the source is kept as the pair <<numerator, denominator>>
Ratio(n, d) == IF d > 0 THEN <<n, d>> ELSE <<0, 1>>

DefaultSettings ==
    [maxActionsPerAccountPerHour |-> 10, minDelayBetweenActions |-> 2,
     likeRatio |-> 50, replyRatio |-> 30, retweetRatio |-> 20, silentBrowsingCount |-> 0]

NoMetrics ==
    [suspicionPerEngagement |-> <<0, 1>>, bansPerEngagement |-> <<0, 1>>,
     avgReach |-> <<0, 1>>, totalEngagements |-> 0]

\* firstCountermeasureTime: <<>> is null, <<t>> a time
createDefaultState ==
    [currentPhase |-> "baseline",
     countermeasureUpdatesUsed |-> 0,
     ruleChangeTriggered |-> FALSE,
     ruleChangeTime |-> 0,
     firstCountermeasureTime |-> <<>>,
     baselineMetrics |-> NoMetrics,
     postChangeMetrics |-> NoMetrics,
     currentSettings |-> DefaultSettings]

initChapter3(s, now) ==
    [chapter3State |-> createDefaultState,
     state |-> logEvent(initEngagementSystem(s), "chapter3", "chapter_start",
                        [ruleChangeMinute |-> RULE_CHANGE_MINUTE,
                         maxCountermeasures |-> MAX_COUNTERMEASURE_UPDATES], now)]

getCurrentRuleSet(s, c3) ==
    LET id == IF c3.currentPhase = "baseline" THEN "baseline" ELSE "post_change"
    IN  IF FindRuleSet(s, id) # <<>> THEN FindRuleSet(s, id)[1] ELSE s.ruleSets[1]

updateChapter3(s, c3, deltaMs, random, now) ==
    updateEngagementSystem(s, deltaMs, << getCurrentRuleSet(s, c3) >>, random, now)

shouldTriggerRuleChange(s, c3) ==
    s.inGameMinutes >= 4 * RULE_CHANGE_MINUTE /\ ~c3.ruleChangeTriggered

getSuspicionStats(s) ==
    LET totalSuspicion == SumSeq(s.engagements, LAMBDA e : e.suspicionDelta)
    IN  [current |-> s.suspicionMeter,
         avgPerEngagement |-> Ratio(totalSuspicion, Len(s.engagements)),
         totalEngagements |-> Len(s.engagements),
         bannedCount |-> Count(s.accounts, LAMBDA a : a.status = "banned"),
         flaggedCount |-> Count(s.accounts, LAMBDA a : a.status = "flagged")]

TotalReach(s) == SumSeq(s.tweets, LAMBDA t : t.liveMetrics.impressions)

captureBaselineMetrics(s, c3) ==
    LET stats == getSuspicionStats(s)
    IN  [c3 EXCEPT !.baselineMetrics =
            [suspicionPerEngagement |-> stats.avgPerEngagement,
             bansPerEngagement |-> Ratio(stats.bannedCount, stats.totalEngagements),
             avgReach |-> Ratio(TotalReach(s), Len(s.tweets)),
             totalEngagements |-> stats.totalEngagements]]

\* the assignments and the log record of applyRuleChange; c is the module state
\* with the baseline metrics captured
RecordRuleChange(s, c, now) ==
    [chapter3State |-> [c EXCEPT !.currentPhase = "post_change",
                                 !.ruleChangeTriggered = TRUE,
                                 !.ruleChangeTime = s.inGameMinutes],
     state |-> logEvent(s, "chapter3", "rule_change",
                        [atMinute |-> s.inGameMinutes,
                         baselineMetrics |-> c.baselineMetrics], now)]

applyRuleChange(s, c3, now) ==
    IF c3.ruleChangeTriggered THEN [chapter3State |-> c3, state |-> s]
    ELSE RecordRuleChange(s, captureBaselineMetrics(s, c3), now)

\* variant: the post-change capture refreshes the baseline snapshot too
capturePostChangeMetrics_both(s, c3) ==
    [c3 EXCEPT !.baselineMetrics = captureBaselineMetrics(s, c3).baselineMetrics,
               !.postChangeMetrics =
                   [suspicionPerEngagement |->
                        Ratio(SumSeq(SelectSeq(s.engagements,
                                               LAMBDA e : e.inGameMinute >= RULE_CHANGE_MINUTE),
                                     LAMBDA e : e.suspicionDelta),
                              Len(SelectSeq(s.engagements,
                                            LAMBDA e : e.inGameMinute >= RULE_CHANGE_MINUTE))),
                    bansPerEngagement |->
                        Ratio(getSuspicionStats(s).bannedCount,
                              Len(SelectSeq(s.engagements,
                                            LAMBDA e : e.inGameMinute >= RULE_CHANGE_MINUTE))),
                    avgReach |-> Ratio(TotalReach(s), Len(s.tweets)),
                    totalEngagements |->
                        Len(SelectSeq(s.engagements,
                                      LAMBDA e : e.inGameMinute >= RULE_CHANGE_MINUTE))]]

capturePostChangeMetrics(s, c3) ==
    LET stats == getSuspicionStats(s)
        postChangeEngagements ==
            SelectSeq(s.engagements, LAMBDA e : e.inGameMinute >= RULE_CHANGE_MINUTE)
        postSuspicion == SumSeq(postChangeEngagements, LAMBDA e : e.suspicionDelta)
    IN  [c3 EXCEPT !.postChangeMetrics =
            [suspicionPerEngagement |-> Ratio(postSuspicion, Len(postChangeEngagements)),
             bansPerEngagement |-> Ratio(stats.bannedCount, Len(postChangeEngagements)),
             avgReach |-> Ratio(TotalReach(s), Len(s.tweets)),
             totalEngagements |-> Len(postChangeEngagements)]]

\* settings is a partial record: its fields override the current settings
MergeSettings(current, settings) ==
    [f \in DOMAIN current |-> IF f \in DOMAIN settings THEN settings[f] ELSE current[f]]

\* variant: the limit is tested with > for >=
applyCountermeasure_oneMore(s, c3, settings, now) ==
    IF c3.countermeasureUpdatesUsed > MAX_COUNTERMEASURE_UPDATES
    THEN [chapter3State |-> c3, state |-> s, result |-> FALSE]
    ELSE LET c1 == [c3 EXCEPT !.countermeasureUpdatesUsed = @ + 1,
                              !.currentSettings = MergeSettings(@, settings)]
             c2 == IF c1.firstCountermeasureTime = <<>> /\ c1.ruleChangeTriggered
                   THEN [c1 EXCEPT !.firstCountermeasureTime = << s.inGameMinutes >>]
                   ELSE c1
         IN  [chapter3State |-> c2,
              state |-> logEvent(s, "chapter3", "countermeasure_applied",
                                 [updateNumber |-> c2.countermeasureUpdatesUsed,
                                  settings |-> c2.currentSettings], now),
              result |-> TRUE]

\* variant: every countermeasure after the rule change is timestamped
applyCountermeasure_restamp(s, c3, settings, now) ==
    IF c3.countermeasureUpdatesUsed >= MAX_COUNTERMEASURE_UPDATES
    THEN [chapter3State |-> c3, state |-> s, result |-> FALSE]
    ELSE [chapter3State |->
              [c3 EXCEPT !.countermeasureUpdatesUsed = @ + 1,
                         !.currentSettings = MergeSettings(@, settings),
                         !.firstCountermeasureTime =
                             IF c3.ruleChangeTriggered THEN << s.inGameMinutes >> ELSE @],
          state |-> logEvent(s, "chapter3", "countermeasure_applied",
                             [updateNumber |-> c3.countermeasureUpdatesUsed + 1,
                              settings |-> MergeSettings(c3.currentSettings, settings)], now),
          result |-> TRUE]

applyCountermeasure(s, c3, settings, now) ==
    IF c3.countermeasureUpdatesUsed >= MAX_COUNTERMEASURE_UPDATES
    THEN [chapter3State |-> c3, state |-> s, result |-> FALSE]
    ELSE LET c1 == [c3 EXCEPT !.countermeasureUpdatesUsed = @ + 1,
                              !.currentSettings = MergeSettings(@, settings)]
             c2 == IF c1.firstCountermeasureTime = <<>> /\ c1.ruleChangeTriggered
                   THEN [c1 EXCEPT !.firstCountermeasureTime = << s.inGameMinutes >>]
                   ELSE c1
         IN  [chapter3State |-> c2,
              state |-> logEvent(s, "chapter3", "countermeasure_applied",
                                 [updateNumber |-> c2.countermeasureUpdatesUsed,
                                  settings |-> c2.currentSettings], now),
              result |-> TRUE]

isChapterComplete(s) == s.inGameMinutes >= 4 * CHAPTER_DURATION

--------------------------------------------------------------------------
(* Chapter 2 logic: triage under a time budget                             *)

\* the accounts initChapter2 puts in the queue, before the shuffle
TriageCandidates(s) ==
    SelectSeq(s.accounts, LAMBDA a : a.status = "active" \/ a.status = "flagged")

\* the orders Array.prototype.sort can leave the queue in under a random comparator
Shuffles(queue) ==
    {q \in [1..Len(queue) -> Range(queue)] : Range(q) = Range(queue)}

\* the log record of initChapter2; shuffled is the queue after the shuffle, in
\* quarter minutes the budget of 60 minutes is 240
initChapter2(s, shuffled, now) ==
    [state |-> logEvent(s, "chapter2", "chapter_start",
                        [accountsToTriage |-> Len(shuffled), timeBudget |-> 4 * 60], now),
     timeBudget |-> 4 * 60,
     currentAccountIndex |-> 0,
     processedAccounts |-> {},
     triageQueue |-> shuffled]

\* variant: the cost is debited without checking the budget
applyTimeCost_unchecked(budget, actionType) ==
    [result |-> TRUE, timeBudget |-> budget - TIME_COSTS[actionType]]

\* variant: a cost equal to the budget is refused
applyTimeCost_strict(budget, actionType) ==
    LET cost == TIME_COSTS[actionType]
    IN  IF budget <= cost THEN [result |-> FALSE, timeBudget |-> budget]
        ELSE [result |-> TRUE, timeBudget |-> budget - cost]

\* returns the boolean result and the new budget
applyTimeCost(budget, actionType) ==
    LET cost == TIME_COSTS[actionType]
    IN  IF budget < cost THEN [result |-> FALSE, timeBudget |-> budget]
        ELSE [result |-> TRUE, timeBudget |-> budget - cost]

isTimeExhausted(budget) == budget <= 0

\* the id of the current account, <<>> for null
getCurrentAccount(queue, index) ==
    IF index >= Len(queue) THEN <<>> ELSE << queue[index + 1] >>

getProcessedCount(processed) == Cardinality(processed)

openAccountDetail(budget) == applyTimeCost(budget, "openAccountDetail")

\* result: <<>> is null, <<flag>> the revealed flag
revealHistoryFlag(budget, account, flagIndex) ==
    LET c == applyTimeCost(budget, "revealHistoryFlag")
    IN  IF ~c.result THEN [result |-> <<>>, timeBudget |-> c.timeBudget]
        ELSE IF flagIndex >= Len(account.historyFlags)
        THEN [result |-> <<>>, timeBudget |-> c.timeBudget]
        ELSE [result |-> << account.historyFlags[flagIndex + 1] >>, timeBudget |-> c.timeBudget]

UpdateAccount(s, accountId, F(_)) ==
    [s EXCEPT !.accounts =
        [i \in 1..Len(@) |-> IF @[i].id = accountId THEN F(@[i]) ELSE @[i]]]

updateProfileField(s, budget, accountId, field, value) ==
    LET c == applyTimeCost(budget, "changeProfileField")
    IN  IF ~c.result THEN [state |-> s, timeBudget |-> c.timeBudget, result |-> FALSE]
        ELSE [state |-> UpdateAccount(s, accountId,
                            LAMBDA a : [a EXCEPT !.profile = [@ EXCEPT ![field] = value]]),
              timeBudget |-> c.timeBudget, result |-> TRUE]

togglePersonaTag(s, budget, accountId, tag) ==
    LET c == applyTimeCost(budget, "togglePersonaTag")
    IN  IF ~c.result THEN [state |-> s, timeBudget |-> c.timeBudget, result |-> FALSE]
        ELSE [state |-> UpdateAccount(s, accountId,
                            LAMBDA a : [a EXCEPT !.persona =
                                IF tag \in @ THEN @ \ {tag} ELSE @ \cup {tag}]),
              timeBudget |-> c.timeBudget, result |-> TRUE]

changeRiskClass(s, budget, accountId, newRiskClass) ==
    LET c == applyTimeCost(budget, "changeRiskClass")
    IN  IF ~c.result THEN [state |-> s, timeBudget |-> c.timeBudget, result |-> FALSE]
        ELSE [state |-> UpdateAccount(s, accountId,
                            LAMBDA a : [a EXCEPT !.riskClass = newRiskClass]),
              timeBudget |-> c.timeBudget, result |-> TRUE]

\* variant: a parked account is discarded
DecisionStatus_parkDiscards(action) ==
    IF action = "keep" THEN "active" ELSE "discarded"

DecisionStatus(action) ==
    IF action = "keep" THEN "active" ELSE IF action = "park" THEN "parked" ELSE "discarded"

\* variant: the decision is recorded but the pointer stays on the account
makeTriageDecision_noAdvance(s, budget, index, processed, accountId, action, detectedFlags, timeSpent, now) ==
    LET c == applyTimeCost(budget, "makeTriageDecision")
        unchanged == [state |-> s, timeBudget |-> c.timeBudget, currentAccountIndex |-> index,
                      processedAccounts |-> processed, result |-> FALSE]
    IN  IF ~c.result THEN unchanged
        ELSE IF FindAccount(s, accountId) = <<>> THEN unchanged
        ELSE
          LET s1 == SetStatus(s, accountId, DecisionStatus(action))
              account == FindAccount(s1, accountId)[1]
              decision == [accountId |-> accountId, action |-> action,
                           newProfile |-> account.profile, newPersona |-> account.persona,
                           newRiskClass |-> account.riskClass,
                           triageTimeSpentMinutes |-> timeSpent,
                           detectedFlags |-> detectedFlags]
              s2 == [s1 EXCEPT !.triageDecisions = Append(@, decision)]
              s3 == logEvent(s2, "chapter2", "triage_decision",
                             [accountId |-> accountId, action |-> action], now)
          IN  [state |-> s3, timeBudget |-> c.timeBudget, currentAccountIndex |-> index,
               processedAccounts |-> processed \cup {accountId}, result |-> TRUE]

\* returns the new GameState and module state, and the boolean result
\* variant: a decision sends the pointer back to the first account
makeTriageDecision_backToFirst(s, budget, index, processed, accountId, action, detectedFlags, timeSpent, now) ==
    LET c == applyTimeCost(budget, "makeTriageDecision")
        unchanged == [state |-> s, timeBudget |-> c.timeBudget, currentAccountIndex |-> index,
                      processedAccounts |-> processed, result |-> FALSE]
    IN  IF ~c.result THEN unchanged
        ELSE IF FindAccount(s, accountId) = <<>> THEN unchanged
        ELSE
          LET s1 == SetStatus(s, accountId, DecisionStatus(action))
              account == FindAccount(s1, accountId)[1]
              decision == [accountId |-> accountId, action |-> action,
                           newProfile |-> account.profile, newPersona |-> account.persona,
                           newRiskClass |-> account.riskClass,
                           triageTimeSpentMinutes |-> timeSpent,
                           detectedFlags |-> detectedFlags]
              s2 == [s1 EXCEPT !.triageDecisions = Append(@, decision)]
              s3 == logEvent(s2, "chapter2", "triage_decision",
                             [accountId |-> accountId, action |-> action], now)
          IN  [state |-> s3, timeBudget |-> c.timeBudget, currentAccountIndex |-> 0,
               processedAccounts |-> processed \cup {accountId}, result |-> TRUE]

makeTriageDecision(s, budget, index, processed, accountId, action, detectedFlags, timeSpent, now) ==
    LET c == applyTimeCost(budget, "makeTriageDecision")
        unchanged == [state |-> s, timeBudget |-> c.timeBudget, currentAccountIndex |-> index,
                      processedAccounts |-> processed, result |-> FALSE]
    IN  IF ~c.result THEN unchanged
        ELSE IF FindAccount(s, accountId) = <<>> THEN unchanged
        ELSE
          LET s1 == SetStatus(s, accountId, DecisionStatus(action))
              account == FindAccount(s1, accountId)[1]
              decision == [accountId |-> accountId, action |-> action,
                           newProfile |-> account.profile, newPersona |-> account.persona,
                           newRiskClass |-> account.riskClass,
                           triageTimeSpentMinutes |-> timeSpent,
                           detectedFlags |-> detectedFlags]
              s2 == [s1 EXCEPT !.triageDecisions = Append(@, decision)]
              s3 == logEvent(s2, "chapter2", "triage_decision",
                             [accountId |-> accountId, action |-> action], now)
          IN  [state |-> s3, timeBudget |-> c.timeBudget, currentAccountIndex |-> index + 1,
               processedAccounts |-> processed \cup {accountId}, result |-> TRUE]

\* variant: the pointer stays where it is
skipAccount_stay(index) == index

skipAccount(index) == index + 1

\* the pending count of getPortfolioStats
PortfolioPending(queue, processed) == Len(queue) - Cardinality(processed)

--------------------------------------------------------------------------
(* Derived scores (metrics.ts)                                             *)
(* The source compares quotients of counts and sums against decimal       *)
(* factors; the comparisons are cross-multiplied here, so they are exact.  *)
(* A quotient 0/0 is NaN in the source and every comparison with it is     *)
(* false; the guards on a zero divisor below say the same.                 *)

\* GameState.exportGameRun, the fields the scores read
exportGameRun(s) ==
    [accounts |-> s.accounts, tweets |-> s.tweets,
     engagements |-> s.engagements, triageDecisions |-> s.triageDecisions]

\* Math.max(0, Math.min(100, score))
Clamp100(score) == Max(0, Min(100, score))

\* accountUsage[accountId]
UsageOf(run, accountId) ==
    Cardinality({i \in 1..Len(run.engagements) : run.engagements[i].accountId = accountId})

\* the sum, over the accounts used, of (n * usage - total)^2: n^3 times the
\* variance of the usage counts
RECURSIVE SumSquaredDeviation(_, _, _, _)
SumSquaredDeviation(run, accounts, n, total) ==
    IF accounts = {} THEN 0
    ELSE LET a == CHOOSE x \in accounts : TRUE
         IN  (n * UsageOf(run, a) - total) * (n * UsageOf(run, a) - total)
                + SumSquaredDeviation(run, accounts \ {a}, n, total)

\* "Check account usage distribution": maxUsage against 3 and 2 times the
\* average, the coefficient of variation against 0.5 and 1.5
UsageAdjustment(run) ==
    LET used == {run.engagements[i].accountId : i \in 1..Len(run.engagements)}
        n == Cardinality(used)
        total == Len(run.engagements)
        maxUsage == CHOOSE m \in {UsageOf(run, a) : a \in used} :
                        \A a \in used : UsageOf(run, a) <= m
        dev4 == 4 * SumSquaredDeviation(run, used, n, total)
    IN  IF n = 0 THEN 0
        ELSE (IF maxUsage * n > 3 * total THEN -15
              ELSE IF maxUsage * n > 2 * total THEN -8 ELSE 0)
           + (IF dev4 < n * total * total THEN 10
              ELSE IF dev4 > 9 * n * total * total THEN -10 ELSE 0)

\* "Check timing patterns": minutes with more than 10 executed actions
SpikeAdjustment(run) ==
    LET minutes == {run.engagements[i].inGameMinute : i \in 1..Len(run.engagements)}
        spikes == Cardinality({m \in minutes :
                      Cardinality({i \in 1..Len(run.engagements) :
                                      run.engagements[i].inGameMinute = m}) > 10})
    IN  IF spikes > 5 THEN -15 ELSE IF spikes > 2 THEN -8 ELSE 0

\* the filters of the executed log: all of it, inGameMinute < 60, inGameMinute >= 60
InPart(e, part) ==
    \/ part = "all"
    \/ part = "firstHalf" /\ e.inGameMinute < 60
    \/ part = "secondHalf" /\ e.inGameMinute >= 60

\* the sum of suspicionDelta over a part of the executed log
SuspicionIn(run, part) ==
    SumInts([i \in 1..Len(run.engagements) |->
                IF InPart(run.engagements[i], part)
                THEN run.engagements[i].suspicionDelta ELSE 0])

CountIn(run, part) ==
    Cardinality({i \in 1..Len(run.engagements) : InPart(run.engagements[i], part)})

\* "Check suspicion levels": the average suspicionDelta against 1 and 3
AverageSuspicionAdjustment(run) ==
    LET total == SuspicionIn(run, "all")
        n == Len(run.engagements)
    IN  IF n = 0 THEN 10
        ELSE IF total < 1000 * n THEN 10
        ELSE IF total > 3000 * n THEN -15 ELSE 0

computePatternRealism(run) ==
    Clamp100(70 + UsageAdjustment(run) + SpikeAdjustment(run) + AverageSuspicionAdjustment(run))

\* "Heavy penalty for burning frontline accounts"
FrontlineAdjustment(run) ==
    LET total == Cardinality({i \in 1..Len(run.accounts) : run.accounts[i].riskClass = "frontline"})
        banned == Cardinality({i \in 1..Len(run.accounts) :
                      run.accounts[i].status = "banned" /\ run.accounts[i].riskClass = "frontline"})
    IN  IF total = 0 THEN 0
        ELSE IF 10 * banned > 3 * total THEN -25
        ELSE IF 100 * banned > 15 * total THEN -15
        ELSE IF banned = 0 THEN 10 ELSE 0

\* "Check triage decisions": flags per decision above 0.5, share of kept
\* accounts assigned to background above 0.3
TriageAdjustment(run) ==
    LET d == run.triageDecisions
        flagsDetected == SumInts([i \in 1..Len(d) |-> Len(d[i].detectedFlags)])
        kept == Cardinality({i \in 1..Len(d) : d[i].action = "keep"})
        conservative == Cardinality({i \in 1..Len(d) :
                            d[i].action = "keep" /\ d[i].newRiskClass = "background"})
    IN  IF Len(d) = 0 THEN 0
        ELSE (IF 2 * flagsDetected > Len(d) THEN 10 ELSE 0)
           + (IF kept > 0 /\ 10 * conservative > 3 * kept THEN 5 ELSE 0)

\* "Average hidden ban risk of kept accounts" against 0.5 and 0.2
BanRiskAdjustment(run) ==
    LET active == Cardinality({i \in 1..Len(run.accounts) : run.accounts[i].status = "active"})
        risk == SumInts([i \in 1..Len(run.accounts) |->
                    IF run.accounts[i].status = "active"
                    THEN run.accounts[i].hiddenBanRiskScore ELSE 0])
    IN  IF active = 0 THEN 0
        ELSE IF risk > 50 * active THEN -15
        ELSE IF risk < 20 * active THEN 10 ELSE 0

\* variant: the sum of the adjustments is returned as it is
computeRiskDiscipline_unclamped(run) ==
    70 + FrontlineAdjustment(run) + TriageAdjustment(run) + BanRiskAdjustment(run)

computeRiskDiscipline(run) ==
    Clamp100(70 + FrontlineAdjustment(run) + TriageAdjustment(run) + BanRiskAdjustment(run))

\* "Did suspicion improve over time?": the average of the minutes from 60 on
\* against 0.7, 1 and 1.3 times the average of the minutes before 60
TrendAdjustment(run) ==
    LET n1 == CountIn(run, "firstHalf")
        n2 == CountIn(run, "secondHalf")
        s1 == SuspicionIn(run, "firstHalf")
        s2 == SuspicionIn(run, "secondHalf")
    IN  IF n1 = 0 \/ n2 = 0 THEN 0
        ELSE IF 10 * s2 * n1 < 7 * s1 * n2 THEN 20
        ELSE IF s2 * n1 < s1 * n2 THEN 10
        ELSE IF 10 * s2 * n1 > 13 * s1 * n2 THEN -15 ELSE 0

\* "Check engagement diversity"
DiversityAdjustment(run) ==
    LET actionTypes == {run.engagements[i].type : i \in 1..Len(run.engagements)}
    IN  IF Cardinality(actionTypes) >= 4 THEN 10
        ELSE IF Cardinality(actionTypes) <= 1 THEN -10 ELSE 0

computeStrategicSensitivity(run) ==
    Clamp100(60 + TrendAdjustment(run) + DiversityAdjustment(run))

\* the executed actions on the tweets of the given ids
EngagementsOn(run, tweetIds) ==
    Cardinality({i \in 1..Len(run.engagements) : run.engagements[i].tweetId \in tweetIds})

\* "Check if main account tweets got more engagement"
MainTweetAdjustment(run) ==
    LET main == {i \in 1..Len(run.tweets) : run.tweets[i].authorType = "GTE_main"}
        other == {i \in 1..Len(run.tweets) : run.tweets[i].authorType # "GTE_main"}
        mainEngagements == EngagementsOn(run, {run.tweets[i].id : i \in main})
        otherEngagements == EngagementsOn(run, {run.tweets[i].id : i \in other})
    IN  IF main = {} \/ other = {} THEN 0
        ELSE IF 2 * mainEngagements * Cardinality(other)
                    > 3 * otherEngagements * Cardinality(main) THEN 15
        ELSE IF mainEngagements * Cardinality(other)
                    < otherEngagements * Cardinality(main) THEN -10 ELSE 0

\* "Check reach objective tweets"
ReachTweetAdjustment(run) ==
    LET reach == {i \in 1..Len(run.tweets) : run.tweets[i].objective = "reach"}
        reachEngagements == EngagementsOn(run, {run.tweets[i].id : i \in reach})
    IN  IF reach = {} THEN 0
        ELSE IF 10 * reachEngagements * Len(run.tweets)
                    > 13 * Len(run.engagements) * Cardinality(reach) THEN 10 ELSE 0

\* "Triage efficiency": the average triageTimeSpentMinutes against 1 and 3
TriageTimeAdjustment(run) ==
    LET d == run.triageDecisions
        total == SumInts([i \in 1..Len(d) |-> d[i].triageTimeSpentMinutes])
    IN  IF Len(d) = 0 THEN 0
        ELSE IF total < Len(d) THEN 5
        ELSE IF total > 3 * Len(d) THEN -10 ELSE 0

computeOperationalPrioritization(run) ==
    Clamp100(65 + MainTweetAdjustment(run) + ReachTweetAdjustment(run) + TriageTimeAdjustment(run))

\* "Reward high engagement volume", "Reward triage completion"
VolumeAdjustment(run) ==
    (IF Len(run.engagements) > 100 THEN 15
     ELSE IF Len(run.engagements) > 50 THEN 10
     ELSE IF Len(run.engagements) < 20 THEN -15 ELSE 0)
  + (IF Len(run.triageDecisions) > 25 THEN 10
     ELSE IF Len(run.triageDecisions) < 10 THEN -10 ELSE 0)

\* "Reward variety in reply tones"
ToneAdjustment(run) ==
    LET replyTones == {run.engagements[i].replyTone : i \in 1..Len(run.engagements)} \ {NoTone}
    IN  IF Cardinality(replyTones) >= 3 THEN 10 ELSE 0

\* "Penalize if same pairs are repeated too much": engagements per distinct
\* (account, tweet) pair against 2 and 1.2
RepetitionAdjustment(run) ==
    LET pairs == Cardinality({<<run.engagements[i].accountId, run.engagements[i].tweetId>> :
                                 i \in 1..Len(run.engagements)})
    IN  IF pairs = 0 THEN 0
        ELSE IF Len(run.engagements) > 2 * pairs THEN -10
        ELSE IF 5 * Len(run.engagements) < 6 * pairs THEN 10 ELSE 0

computeAutonomySignals(run) ==
    Clamp100(50 + VolumeAdjustment(run) + ToneAdjustment(run) + RepetitionAdjustment(run))

computeDerivedScores(run) ==
    [patternRealism |-> computePatternRealism(run),
     riskDiscipline |-> computeRiskDiscipline(run),
     strategicSensitivity |-> computeStrategicSensitivity(run),
     operationalPrioritization |-> computeOperationalPrioritization(run),
     autonomySignals |-> computeAutonomySignals(run)]

--------------------------------------------------------------------------
(* Scene handlers of Chapter1Scene                                         *)

\* c is the state and the accepted triples so far, r the result of the call
ClickAccept(c, r, triple) ==
    [state |-> r.state, result |-> IF r.result THEN Append(c.result, triple) ELSE c.result]

\* queuedActions.forEach(type => selectedAccounts.forEach(account => ...))
RECURSIVE ClickLoop(_, _, _, _, _, _)
ClickLoop(c, selectedAccounts, queuedActions, k, tweetId, currentMinute) ==
    IF k > Len(selectedAccounts) * Len(queuedActions) THEN c
    ELSE
      LET actionType == queuedActions[((k - 1) \div Len(selectedAccounts)) + 1]
          accountId == selectedAccounts[((k - 1) % Len(selectedAccounts)) + 1]
      IN  ClickLoop(
            ClickAccept(c,
                IF FindAccount(c.state, accountId) = <<>> THEN [state |-> c.state, result |-> FALSE]
                ELSE IF hasAccountEngagedTweet(c.state, accountId, tweetId, actionType)
                THEN [state |-> c.state, result |-> FALSE]
                ELSE scheduleEngagement(c.state, accountId, tweetId, actionType, currentMinute, NoTone),
                <<accountId, tweetId, actionType>>),
            selectedAccounts, queuedActions, k + 1, tweetId, currentMinute)

\* the schedule button: every queued action type for every selected account,
\* at the next whole minute; result is the list of accepted triples
onScheduleClick(s, selectedAccounts, queuedActions, tweetId) ==
    ClickLoop([state |-> s, result |-> <<>>], selectedAccounts, queuedActions, 1, tweetId,
              FloorMinute(s.inGameMinutes) + 1)

--------------------------------------------------------------------------
(* Populations (what generateAccounts / generateTweets hand to the engine) *)

Account(id, riskClass, persona, risk, flags) ==
    [id |-> id, riskClass |-> riskClass, status |-> "active", persona |-> persona,
     profile |-> [handle |-> id, bio |-> "bio"],
     historyFlags |-> flags, hiddenBanRiskScore |-> risk]

Tweet(id, authorType, objective, reach, age) ==
    [id |-> id, authorType |-> authorType, objective |-> objective,
     baseOrganicReach |-> reach,
     liveMetrics |-> [impressions |-> reach \div 10, depthScore |-> 3,
                      timeSincePostMinutes |-> age,
                      likes |-> 2, retweets |-> 0, replies |-> 0, quotes |-> 0]]

Fleet ==
    << Account("acc_1", "frontline", {"defi"}, 20, << "past_scam_promotion", "bot_like_activity" >>),
       Account("acc_2", "mid", {"normie"}, 8, <<>>),
       Account("acc_3", "background", {"builder"}, 60, << "low_quality_followers" >>),
       Account("acc_4", "frontline", {}, 100, << "past_political_spam" >>) >>

Timeline ==
    << Tweet("tweet_1", "GTE_main", "reach", 2400, 0),
       Tweet("tweet_2", "GTE_main", "depth", 4800, 40),
       Tweet("tweet_3", "affiliate", "reach", 600, 120) >>

AccountIds == {a.id : a \in Range(Fleet)}

TweetIds == {t.id : t \in Range(Timeline)}

\* GameState.initNewRun
NewRun ==
    [currentSceneId |-> "intro",
     accounts |-> <<>>, tweets |-> <<>>, engagements |-> <<>>, triageDecisions |-> <<>>,
     ruleSets |-> << BASELINE_RULES, POST_CHANGE_RULES >>,
     telemetryLog |-> <<>>,
     derivedScores |-> [patternRealism |-> 0, riskDiscipline |-> 0, strategicSensitivity |-> 0,
                        operationalPrioritization |-> 0, autonomySignals |-> 0],
     inGameMinutes |-> 0, suspicionMeter |-> 0,
     engagementQueue |-> <<>>, systemNotices |-> <<>>, actionIdCounter |-> 0]

NoResult == [op |-> "none"]

\* acceptedCalls: the argument lists, among those a run repeats (ApiCalls), of
\*   the scheduleEngagement calls, direct or made by the schedule button, that
\*   returned true
\* negativeDelta: some advance call had a negative delta
\* skips: calls of skipAccount; offCurrent: a decision named another account than
\* the current one; swaps: changes of the phase from baseline to post_change
\* twin: the GameState of a second run fed the same calls (two-run phase only)
\* applied: the applyCountermeasure calls that returned true since initChapter3
NoHistory ==
    [acceptedCalls |-> {}, negativeDelta |-> FALSE, skips |-> 0, offCurrent |-> FALSE,
     swaps |-> 0, twin |-> <<>>, applied |-> 0, timers |-> 0, entered |-> <<>>]

Triple(e) == <<e.accountId, e.tweetId, e.type>>

--------------------------------------------------------------------------
(* The open engagement phase (Chapter 1)                                   *)

\* bound on the simulated minutes a run is advanced
MaxMinute == 3

Clock == {0}

\* state after Chapter1Scene.init on a new run
EngagementInit ==
    /\ state = initChapter1([NewRun EXCEPT !.currentSceneId = "chapter1",
                                           !.accounts = Fleet, !.tweets = Timeline], 0)
    /\ lastResult = NoResult
    /\ chapter3State = createDefaultState
    /\ timeBudget = 0
    /\ currentAccountIndex = 0
    /\ triageQueue = <<>>
    /\ processedAccounts = {}
    /\ isComplete = FALSE
    /\ hist = NoHistory

ModuleState == <<chapter3State, timeBudget, currentAccountIndex, triageQueue, processedAccounts>>

\* inputs of the open engagement phase
FullSelection == << "acc_1", "acc_2", "acc_3", "acc_4" >>

AllActions == << "like", "reply", "retweet", "quote" >>

ApiCalls ==
    { << "acc_4", "tweet_1", "quote", 1, NoTone >>,
      << "acc_2", "tweet_2", "reply", 2, "technicalCritique" >> }

Deltas == {5000}

Randoms == {0, 60}

\* the schedule button of Chapter1Scene / Chapter3Scene
ScheduleClick(selectedAccounts, queuedActions, tweetId) ==
    \E r \in {onScheduleClick(state, selectedAccounts, queuedActions, tweetId)} :
        /\ state' = r.state
        /\ lastResult' = [op |-> "click", accepted |-> r.result]
        /\ hist' = [hist EXCEPT !.acceptedCalls =
                        @ \cup {c \in ApiCalls :
                                   /\ <<c[1], c[2], c[3]>> \in Range(r.result)
                                   /\ c[4] = FloorMinute(state.inGameMinutes) + 1
                                   /\ c[5] = NoTone}]
        /\ UNCHANGED <<ModuleState, isComplete>>

\* a call of the exported scheduleEngagement; c is its argument list
ScheduleCall(c) ==
    \E r \in {scheduleEngagement(state, c[1], c[2], c[3], c[4], c[5])} :
        /\ state' = r.state
        /\ lastResult' = [op |-> "schedule", args |-> c, result |-> r.result,
                          repeated |-> c \in hist.acceptedCalls,
                          engaged |-> \/ \E i \in 1..Len(state.engagements) :
                                            Triple(state.engagements[i]) = <<c[1], c[2], c[3]>>
                                      \/ \E i \in 1..Len(state.engagementQueue) :
                                            Triple(state.engagementQueue[i]) = <<c[1], c[2], c[3]>>,
                          queueBefore |-> Len(state.engagementQueue),
                          before |-> state]
        /\ hist' = [hist EXCEPT !.acceptedCalls = IF r.result THEN @ \cup {c} ELSE @]
        /\ UNCHANGED <<ModuleState, isComplete>>

\* a call of the exported scheduleEngagementWave
ScheduleWave(accountIds, tweetId, type, pattern, startMinute) ==
    \E r \in {scheduleEngagementWave(state, accountIds, tweetId, type, pattern, startMinute)} :
        /\ state' = r.state
        /\ lastResult' = [op |-> "wave", result |-> r.result,
                          args |-> [accountIds |-> accountIds, tweetId |-> tweetId, type |-> type,
                                    pattern |-> pattern, startMinute |-> startMinute],
                          queue |-> state.engagementQueue,
                          queueBefore |-> Len(state.engagementQueue)]
        /\ UNCHANGED <<ModuleState, isComplete, hist>>

ClearAccount(accountId) ==
    \E r \in {clearAccountEngagements(state, accountId)} :
        /\ state' = r.state
        /\ lastResult' = [op |-> "clear", result |-> r.result]
        /\ UNCHANGED <<ModuleState, isComplete, hist>>

\* Chapter1Scene.update
Chapter1Update(deltaMs, random, now) ==
    /\ ~isComplete
    /\ state.inGameMinutes + ToGameMinutes(deltaMs) <= 4 * MaxMinute
    /\ state.inGameMinutes + ToGameMinutes(deltaMs) >= 0
    /\ \E r \in {updateChapter1(state, deltaMs, random, now)} :
           /\ state' = r.state
           /\ lastResult' = [op |-> "update", deltaMs |-> deltaMs,
                             logBefore |-> Len(state.engagements),
                             meterBefore |-> state.suspicionMeter,
                             queueBefore |-> state.engagementQueue,
                             statusBefore |-> [i \in 1..Len(state.accounts) |->
                                                  state.accounts[i].status],
                             telemetryBefore |-> state.telemetryLog,
                             processedActions |-> r.processedActions,
                             notices |-> r.notices,
                             timeBefore |-> state.inGameMinutes]
           /\ isComplete' = (r.state.inGameMinutes >= 4 * 180)
           /\ hist' = [hist EXCEPT !.negativeDelta = @ \/ deltaMs < 0]
    /\ UNCHANGED ModuleState

Next ==
    \/ ScheduleClick(FullSelection, AllActions, "tweet_1")
    \/ \E c \in ApiCalls : ScheduleCall(c)
    \/ ScheduleWave(<< "acc_2", "acc_3" >>, "tweet_2", "retweet", "staggered", 1)
    \/ ClearAccount("acc_1")
    \/ \E d \in Deltas, r \in Randoms, now \in Clock : Chapter1Update(d, r, now)

Spec == EngagementInit /\ [][Next]_vars

\* the same phase driven to a full detection meter, with one host misuse (a
\* negative delta) allowed per run
MeterNext ==
    \/ \E t \in {"tweet_1", "tweet_2"} : ScheduleClick(FullSelection, AllActions, t)
    \/ \E d \in Deltas \cup {-10000}, r \in Randoms, now \in Clock :
          /\ d < 0 => ~hist.negativeDelta
          /\ Chapter1Update(d, r, now)

SpecMeter == EngagementInit /\ [][MeterNext]_vars

\* one account worked as hard as the schedule button allows
PacingNext ==
    \/ \E t \in TweetIds : ScheduleClick(<< "acc_1" >>, AllActions, t)
    \/ \E d \in Deltas, r \in Randoms, now \in Clock : Chapter1Update(d, r, now)

SpecPacing == EngagementInit /\ [][PacingNext]_vars

--------------------------------------------------------------------------
(* Properties of the engagement system                                     *)

\* the records the last advance call appended to the executed log
Appended == SubSeq(state.engagements, lastResult.logBefore + 1, Len(state.engagements))

MeterWithinRange ==
    state.suspicionMeter >= 0 /\ state.suspicionMeter <= SUSPICION_THRESHOLDS.maximum

\* C1 (as amended): after any sequence of advance calls whose deltas are all
\* non-negative, with any queued actions, the detection meter is within [0,100].
C1_MeterWithinRange == ~hist.negativeDelta => MeterWithinRange

\* C1 as stated: the meter is within [0,100] after advance calls with any deltas.
C1_MeterWithinRangeAnyDelta == MeterWithinRange

\* an advance call without any negative delta so far in which the upper clamp acted
C1_Witness ==
    /\ ~hist.negativeDelta
    /\ lastResult.op = "update"
    /\ lastResult.meterBefore + SumSeq(Appended, LAMBDA e : e.suspicionDelta)
          > SUSPICION_THRESHOLDS.maximum
    /\ state.suspicionMeter > 0

\* C2: every (account, tweet, type) triple occurs at most once in the executed
\* log, at most once in the pending queue, and never in both.
C2_TripleUnique ==
    /\ \A i, j \in 1..Len(state.engagements) :
          i # j => Triple(state.engagements[i]) # Triple(state.engagements[j])
    /\ \A i, j \in 1..Len(state.engagementQueue) :
          i # j => Triple(state.engagementQueue[i]) # Triple(state.engagementQueue[j])
    /\ \A i \in 1..Len(state.engagements), j \in 1..Len(state.engagementQueue) :
          Triple(state.engagements[i]) # Triple(state.engagementQueue[j])

\* a schedule click that was partly refused while actions are both executed and pending
C2_Witness ==
    /\ lastResult.op = "click"
    /\ Len(lastResult.accepted) > 0
    /\ Len(lastResult.accepted) < Len(FullSelection) * Len(AllActions)
    /\ Len(state.engagements) > 0
    /\ \E i \in 1..Len(state.engagements) :
          <<state.engagements[i].accountId, "tweet_1">> \in
              {<<e.accountId, e.tweetId>> : e \in Range(state.engagementQueue)}

\* C3 (as amended): a scheduleEngagement call whose triple is pending or
\* executed at the time of the call returns false and leaves the queue length
\* unchanged, whatever advance calls happened since the triple was accepted.
C3_EngagedTripleRefused ==
    (lastResult.op = "schedule" /\ lastResult.engaged)
        => (~lastResult.result /\ Len(state.engagementQueue) = lastResult.queueBefore)

\* C3 as stated: once a call has returned true, every later call with identical
\* arguments returns false and leaves the queue length unchanged.
C3_AcceptedOnceEver ==
    (lastResult.op = "schedule" /\ lastResult.repeated)
        => (~lastResult.result /\ Len(state.engagementQueue) = lastResult.queueBefore)

\* a repeated call refused after its first action was executed
C3_Witness ==
    /\ lastResult.op = "schedule"
    /\ lastResult.repeated
    /\ ~lastResult.result
    /\ \E i \in 1..Len(state.engagements) :
          Triple(state.engagements[i]) = <<lastResult.args[1], lastResult.args[2], lastResult.args[3]>>

\* C4: one advance call appends at most MAX_ACTIONS_PER_MINUTE records per
\* simulated minute to the executed log.
C4_PerMinuteCap ==
    lastResult.op = "update" =>
        \A m \in 0..(MaxMinute + 1) :
            Count(Appended, LAMBDA e : e.inGameMinute = m) <= MAX_ACTIONS_PER_MINUTE

\* an advance call that found more than the cap queued for a minute and executed
\* exactly the cap
C4_Witness ==
    /\ lastResult.op = "update"
    /\ \E m \in 0..MaxMinute :
          /\ Count(lastResult.queueBefore, LAMBDA e : e.scheduledMinute = m)
                > MAX_ACTIONS_PER_MINUTE
          /\ Count(Appended, LAMBDA e : e.inGameMinute = m) = MAX_ACTIONS_PER_MINUTE

\* C5: for every account and every minute m, the account has at most
\* MAX_ACTIONS_PER_ACCOUNT_PER_HOUR actions, pending or executed, whose minute
\* lies in [m - 60, m].
C5_PacingWindow ==
    \A a \in AccountIds, m \in 0..(MaxMinute + 1) :
        Count(state.engagementQueue, LAMBDA e :
                  e.accountId = a /\ e.scheduledMinute >= m - 60 /\ e.scheduledMinute <= m)
      + Count(state.engagements, LAMBDA e :
                  e.accountId = a /\ e.inGameMinute >= m - 60 /\ e.inGameMinute <= m)
        <= MAX_ACTIONS_PER_ACCOUNT_PER_HOUR

--------------------------------------------------------------------------
(* The adaptive phase (Chapter 3)                                          *)

\* state after Chapter3Scene.init on a new run
AdaptiveInit ==
    \E r \in {initChapter3([NewRun EXCEPT !.currentSceneId = "chapter3",
                                          !.accounts = Fleet, !.tweets = Timeline], 0)} :
        /\ state = r.state
        /\ chapter3State = r.chapter3State
        /\ lastResult = NoResult
        /\ timeBudget = 0
        /\ currentAccountIndex = 0
        /\ triageQueue = <<>>
        /\ processedAccounts = {}
        /\ isComplete = FALSE
        /\ hist = NoHistory

\* a new run brought to Chapter3Scene.init again (the next initChapter3)
Chapter3Restart ==
    \E r \in {initChapter3([NewRun EXCEPT !.currentSceneId = "chapter3",
                                          !.accounts = Fleet, !.tweets = Timeline], 0)} :
        /\ state' = r.state
        /\ chapter3State' = r.chapter3State
        /\ lastResult' = [op |-> "init"]
        /\ isComplete' = FALSE
        /\ hist' = NoHistory
        /\ UNCHANGED <<timeBudget, currentAccountIndex, triageQueue, processedAccounts>>

\* "Check for rule change" of Chapter3Scene.update
RuleChangeCheck(s, c3, now) ==
    IF shouldTriggerRuleChange(s, c3) THEN applyRuleChange(s, c3, now)
    ELSE [chapter3State |-> c3, state |-> s]

\* Chapter3Scene.update: the rule-change check, the tick, the post-change
\* metrics and the completion check
Chapter3Update(deltaMs, random, now) ==
    /\ ~isComplete
    /\ \E c \in {RuleChangeCheck(state, chapter3State, now)} :
       \E r \in {updateChapter3(c.state, c.chapter3State, deltaMs, random, now)} :
           /\ state' = r.state
           /\ chapter3State' = IF c.chapter3State.currentPhase = "post_change"
                               THEN capturePostChangeMetrics(r.state, c.chapter3State)
                               ELSE c.chapter3State
           /\ lastResult' = [op |-> "update", deltaMs |-> deltaMs,
                             logBefore |-> Len(state.engagements),
                             meterBefore |-> state.suspicionMeter,
                             queueBefore |-> state.engagementQueue,
                             statusBefore |-> [i \in 1..Len(state.accounts) |->
                                                  state.accounts[i].status],
                             telemetryBefore |-> state.telemetryLog,
                             processedActions |-> r.processedActions,
                             notices |-> r.notices,
                             timeBefore |-> state.inGameMinutes,
                             swapped |-> /\ chapter3State.currentPhase = "baseline"
                                         /\ c.chapter3State.currentPhase = "post_change",
                             ruleSet |-> getCurrentRuleSet(c.state, c.chapter3State).id]
           /\ isComplete' = isChapterComplete(r.state)
           /\ hist' = [hist EXCEPT
                          !.negativeDelta = @ \/ deltaMs < 0,
                          !.swaps = IF /\ chapter3State.currentPhase = "baseline"
                                       /\ c.chapter3State.currentPhase = "post_change"
                                    THEN @ + 1 ELSE @]
    /\ UNCHANGED <<timeBudget, currentAccountIndex, triageQueue, processedAccounts>>

\* a countermeasure button of Chapter3Scene
Countermeasure(settings, now) ==
    \E r \in {applyCountermeasure(state, chapter3State, settings, now)} :
        /\ state' = r.state
        /\ chapter3State' = r.chapter3State
        /\ lastResult' = [op |-> "countermeasure", result |-> r.result,
                          before |-> chapter3State, logBefore |-> state.telemetryLog,
                          appliedBefore |-> hist.applied]
        /\ hist' = [hist EXCEPT !.applied = IF r.result THEN @ + 1 ELSE @]
        /\ UNCHANGED <<timeBudget, currentAccountIndex, triageQueue, processedAccounts,
                       isComplete>>

\* frame deltas of the adaptive phase: 20, 39 and 81 simulated minutes (a tab
\* left in the background delivers its whole absence as one delta)
AdaptiveDeltas == {100000, 195000, 405000}

AdaptiveNext ==
    \/ ScheduleClick(<< "acc_1" >>, << "like" >>, "tweet_1")
    \/ \E d \in AdaptiveDeltas, r \in {0}, now \in Clock : Chapter3Update(d, r, now)
    \/ \E now \in Clock, n \in {5, 7} :
          Countermeasure([maxActionsPerAccountPerHour |-> n], now)
    \/ Chapter3Restart

SpecAdaptive == AdaptiveInit /\ [][AdaptiveNext]_vars

\* C6: in the adaptive phase the active phase changes from baseline to
\* post_change exactly once per initChapter3 (so a chapter that has run to
\* completion has made the change), only in a state with inGameMinutes >=
\* RULE_CHANGE_MINUTE, and does not return to baseline before the next
\* initChapter3.
C6_SwapExactlyOnce ==
    /\ hist.swaps <= 1
    /\ (lastResult.op = "update" /\ lastResult.swapped)
          => lastResult.timeBefore >= 4 * RULE_CHANGE_MINUTE
    /\ hist.swaps = 1 => chapter3State.currentPhase = "post_change"
    /\ isComplete => hist.swaps = 1

\* C13: between two initChapter3 calls at most MAX_COUNTERMEASURE_UPDATES
\* applyCountermeasure calls return true; every further call returns false and
\* leaves the settings, the used-updates counter, the first-countermeasure
\* time and the telemetry log unchanged.
C13_CountermeasureLimit ==
    /\ hist.applied <= MAX_COUNTERMEASURE_UPDATES
    /\ lastResult.op = "countermeasure" =>
          /\ lastResult.appliedBefore >= MAX_COUNTERMEASURE_UPDATES => ~lastResult.result
          /\ ~lastResult.result =>
                /\ chapter3State.currentSettings = lastResult.before.currentSettings
                /\ chapter3State.countermeasureUpdatesUsed
                      = lastResult.before.countermeasureUpdatesUsed
                /\ chapter3State.firstCountermeasureTime
                      = lastResult.before.firstCountermeasureTime
                /\ state.telemetryLog = lastResult.logBefore

\* a fourth call, asking for another setting than the current one, refused
\* after the rule change
C13_Witness ==
    /\ lastResult.op = "countermeasure"
    /\ ~lastResult.result
    /\ hist.applied = MAX_COUNTERMEASURE_UPDATES
    /\ chapter3State.ruleChangeTriggered
    /\ \E i \in 1..Len(state.telemetryLog) :
          /\ state.telemetryLog[i].type = "countermeasure_applied"
          /\ state.telemetryLog[i].payload.settings # chapter3State.currentSettings

--------------------------------------------------------------------------
(* The triage phase (Chapter 2)                                            *)

\* the accounts Chapter 1 hands over: one of them was banned there
TriageFleet ==
    [i \in 1..Len(Fleet) |-> IF Fleet[i].id \in {"acc_3", "acc_4"}
                             THEN [Fleet[i] EXCEPT !.status = "banned"] ELSE Fleet[i]]

\* bound: the account detail views already made when the modelled operations
\* start (the hour of budget is otherwise 240 steps deep)
ViewsBefore == 56

\* the budget after n calls of openAccountDetail: each call the budget covers
\* debits its cost
AfterViews(budget, n) ==
    budget - TIME_COSTS.openAccountDetail * Min(n, budget \div TIME_COSTS.openAccountDetail)

\* state after Chapter2Scene.init and ViewsBefore detail views; the queue holds
\* the ids of the queued accounts
TriageInit ==
    \E q \in Shuffles([i \in 1..Len(TriageCandidates([accounts |-> TriageFleet])) |->
                          TriageCandidates([accounts |-> TriageFleet])[i].id]) :
    \E r \in {initChapter2([NewRun EXCEPT !.currentSceneId = "chapter2",
                                          !.accounts = TriageFleet], q, 0)} :
        /\ state = r.state
        /\ timeBudget = AfterViews(r.timeBudget, ViewsBefore)
        /\ currentAccountIndex = r.currentAccountIndex
        /\ processedAccounts = r.processedAccounts
        /\ triageQueue = r.triageQueue
        /\ chapter3State = createDefaultState
        /\ lastResult = NoResult
        /\ isComplete = FALSE
        /\ hist = NoHistory

\* what a triage operation leaves alone besides the budget
TriageRest == <<chapter3State, currentAccountIndex, triageQueue, processedAccounts, isComplete, hist>>

OpenAccountDetail ==
    \E r \in {openAccountDetail(timeBudget)} :
        /\ timeBudget' = r.timeBudget
        /\ lastResult' = [op |-> "openAccountDetail", result |-> r.result,
                          budgetBefore |-> timeBudget]
        /\ UNCHANGED <<state, TriageRest>>

RevealHistoryFlag(accountId, flagIndex) ==
    /\ FindAccount(state, accountId) # <<>>
    /\ \E r \in {revealHistoryFlag(timeBudget, FindAccount(state, accountId)[1], flagIndex)} :
        /\ timeBudget' = r.timeBudget
        /\ lastResult' = [op |-> "revealHistoryFlag", result |-> r.result # <<>>,
                          budgetBefore |-> timeBudget,
                          inRange |-> flagIndex < Len(FindAccount(state, accountId)[1].historyFlags),
                          before |-> [state |-> state, currentAccountIndex |-> currentAccountIndex,
                                      processedAccounts |-> processedAccounts]]
        /\ UNCHANGED <<state, TriageRest>>

UpdateProfileField(accountId, field, value) ==
    \E r \in {updateProfileField(state, timeBudget, accountId, field, value)} :
        /\ state' = r.state
        /\ timeBudget' = r.timeBudget
        /\ lastResult' = [op |-> "updateProfileField", result |-> r.result,
                          budgetBefore |-> timeBudget]
        /\ UNCHANGED TriageRest

TogglePersonaTag(accountId, tag) ==
    \E r \in {togglePersonaTag(state, timeBudget, accountId, tag)} :
        /\ state' = r.state
        /\ timeBudget' = r.timeBudget
        /\ lastResult' = [op |-> "togglePersonaTag", result |-> r.result,
                          budgetBefore |-> timeBudget]
        /\ UNCHANGED TriageRest

ChangeRiskClass(accountId, newRiskClass) ==
    \E r \in {changeRiskClass(state, timeBudget, accountId, newRiskClass)} :
        /\ state' = r.state
        /\ timeBudget' = r.timeBudget
        /\ lastResult' = [op |-> "changeRiskClass", result |-> r.result,
                          budgetBefore |-> timeBudget]
        /\ UNCHANGED TriageRest

MakeTriageDecision(accountId, action, now) ==
    \E r \in {makeTriageDecision(state, timeBudget, currentAccountIndex, processedAccounts,
                                 accountId, action, <<>>, 0, now)} :
        /\ state' = r.state
        /\ timeBudget' = r.timeBudget
        /\ currentAccountIndex' = r.currentAccountIndex
        /\ processedAccounts' = r.processedAccounts
        /\ lastResult' = [op |-> "makeTriageDecision", result |-> r.result,
                          budgetBefore |-> timeBudget,
                          accountId |-> accountId, action |-> action,
                          before |-> [state |-> state, currentAccountIndex |-> currentAccountIndex,
                                      processedAccounts |-> processedAccounts]]
        /\ hist' = [hist EXCEPT !.offCurrent =
                        @ \/ getCurrentAccount(triageQueue, currentAccountIndex) # << accountId >>]
        /\ UNCHANGED <<chapter3State, triageQueue, isComplete>>

\* bound on how far skipAccount is driven past the end of the queue
MaxOverrun == 1

\* hist.skips counts the skips that passed over an account
SkipAccount ==
    /\ currentAccountIndex < Len(triageQueue) + MaxOverrun
    /\ currentAccountIndex' = skipAccount(currentAccountIndex)
    /\ lastResult' = [op |-> "skipAccount", result |-> TRUE, budgetBefore |-> timeBudget,
                      before |-> [state |-> state, currentAccountIndex |-> currentAccountIndex,
                                  processedAccounts |-> processedAccounts]]
    /\ hist' = [hist EXCEPT !.skips =
                    IF currentAccountIndex < Len(triageQueue) THEN @ + 1 ELSE @]
    /\ UNCHANGED <<state, timeBudget, chapter3State, triageQueue, processedAccounts, isComplete>>

\* the account the editor shows, and one the queue does not hold
DecisionTargets ==
    {triageQueue[i] : i \in {currentAccountIndex + 1} \cap (1..Len(triageQueue))} \cup {"acc_3"}

TriageNext ==
    \/ OpenAccountDetail
    \/ \E i \in {0, 2} : RevealHistoryFlag("acc_1", i)
    \/ UpdateProfileField("acc_1", "bio", "edited")
    \/ TogglePersonaTag("acc_1", "defi")
    \/ ChangeRiskClass("acc_1", "mid")
    \/ \E a \in DecisionTargets, now \in Clock : MakeTriageDecision(a, "keep", now)
    \/ SkipAccount

SpecTriage == TriageInit /\ [][TriageNext]_vars

\* the accounts of the queue at or after the current-account pointer
Remaining == Max(0, Len(triageQueue) - currentAccountIndex)

\* C7: under any sequence of triage operations the time budget never increases
\* from one state to the next and is never negative.
C7_BudgetNonIncreasing ==
    /\ timeBudget >= 0
    /\ lastResult.op # "none" => timeBudget <= lastResult.budgetBefore

\* an operation refused because the budget left does not cover its cost
C7_Witness ==
    /\ lastResult.op = "openAccountDetail"
    /\ ~lastResult.result
    /\ timeBudget > 0
    /\ timeBudget < TIME_COSTS.openAccountDetail

\* C8 (as amended): when every decision is made for the current account, the
\* accounts with a recorded decision, the accounts still to be presented and
\* the accounts skipped add up to the queue length, and the pending count of
\* getPortfolioStats is not negative.
C8_QueueAccounting ==
    ~hist.offCurrent =>
        /\ getProcessedCount(processedAccounts) + Remaining + hist.skips = Len(triageQueue)
        /\ PortfolioPending(triageQueue, processedAccounts) >= 0

\* C8 as stated: processed plus remaining equals the queue length, and the
\* pending count is never negative, after any mix of decisions and skips.
C8_ProcessedPlusRemaining ==
    /\ getProcessedCount(processedAccounts) + Remaining = Len(triageQueue)
    /\ PortfolioPending(triageQueue, processedAccounts) >= 0

\* the queue worked through to its end with a decision and a skip
C8_Witness ==
    /\ ~hist.offCurrent
    /\ Remaining = 0
    /\ getProcessedCount(processedAccounts) >= 1
    /\ hist.skips >= 1

\* the TIME_COSTS entry an operation is charged
CostOf(op) ==
    IF op = "updateProfileField" THEN TIME_COSTS.changeProfileField ELSE TIME_COSTS[op]

BudgetedOps ==
    {"openAccountDetail", "revealHistoryFlag", "updateProfileField", "togglePersonaTag",
     "changeRiskClass", "makeTriageDecision"}

MinCost == CHOOSE c \in {CostOf(op) : op \in BudgetedOps} :
               \A op \in BudgetedOps : c <= CostOf(op)

\* C15: in every triage state where the remaining budget is smaller than the
\* cost of every budgeted action, the phase is complete: isTimeExhausted() is
\* true or getCurrentAccount() is null.
C15_NoStrandedBudget ==
    timeBudget < MinCost =>
        \/ isTimeExhausted(timeBudget)
        \/ getCurrentAccount(triageQueue, currentAccountIndex) = <<>>

--------------------------------------------------------------------------
(* The summary (SummaryScene) over run snapshots                           *)

\* bounds on the snapshots: batches of executed actions in the log, batches
\* of triage decisions
MaxBursts == 2

MaxBatches == 2

\* bound: the decisions of one batch
BatchSize == 13

SafeFleet == << Account("acc_1", "frontline", {"defi"}, 10, <<>>) >>

RotationAccounts == << "acc_1", "acc_2", "acc_3", "acc_4" >>

RotationTweets == << "tweet_1", "tweet_2", "tweet_3" >>

RotationActions == << "like", "reply", "retweet", "quote" >>

RotationTones == << "highSignalCT", "farming", "technicalCritique" >>

\* the i-th executed action of a batch of the given kind
Executed(kind, i, minute) ==
    [id |-> 0, inGameMinute |-> minute,
     accountId |-> IF kind = "steady" THEN "acc_1"
                   ELSE IF kind = "noisy" THEN "acc_2"
                   ELSE RotationAccounts[(i % 4) + 1],
     tweetId |-> IF kind = "steady" THEN "tweet_1"
                 ELSE IF kind = "noisy" THEN "tweet_3"
                 ELSE RotationTweets[(i % 3) + 1],
     type |-> IF kind = "steady" THEN "like"
              ELSE IF kind = "noisy" THEN "reply"
              ELSE RotationActions[(i % 4) + 1],
     replyTone |-> IF kind = "steady" THEN NoTone
                   ELSE IF kind = "noisy" THEN "technicalCritique"
                   ELSE IF (i % 4) + 1 \in {2, 4} THEN RotationTones[(i % 3) + 1] ELSE NoTone,
     suspicionDelta |-> IF kind = "steady" THEN 500 ELSE IF kind = "noisy" THEN 4000 ELSE 1500,
     reachDelta |-> 10, depthDelta |-> 1]

\* perMinute executed actions in each of the minutes start .. start + minutes - 1
Burst(kind, perMinute, minutes, start) ==
    [i \in 1..(perMinute * minutes) |-> Executed(kind, i, start + ((i - 1) % minutes))]

Bursts ==
    {Burst(shape[1], shape[2], shape[3], shape[4]) :
        shape \in {<<"steady", 1, 1, 1>>, <<"steady", 11, 6, 1>>, <<"noisy", 11, 6, 61>>,
                   <<"rotating", 11, 6, 1>>, <<"rotating", 11, 6, 61>>}}

RECURSIVE EngagementLogs(_)
EngagementLogs(k) ==
    IF k = 0 THEN {<<>>}
    ELSE EngagementLogs(k - 1) \cup {l \o b : l \in EngagementLogs(k - 1), b \in Bursts}

\* ids in order of execution, as ++state.actionIdCounter gives them
Numbered(log) == [i \in 1..Len(log) |-> [log[i] EXCEPT !.id = i]]

DecisionSamples ==
    { [accountId |-> "acc_1", action |-> "keep", newProfile |-> [handle |-> "acc_1", bio |-> "bio"],
       newPersona |-> {"defi"}, newRiskClass |-> "background", triageTimeSpentMinutes |-> 0,
       detectedFlags |-> << "past_scam_promotion" >>],
      [accountId |-> "acc_2", action |-> "discard", newProfile |-> [handle |-> "acc_2", bio |-> "bio"],
       newPersona |-> {"normie"}, newRiskClass |-> "frontline", triageTimeSpentMinutes |-> 5,
       detectedFlags |-> <<>>] }

RECURSIVE DecisionLogs(_)
DecisionLogs(k) ==
    IF k = 0 THEN {<<>>}
    ELSE DecisionLogs(k - 1) \cup
         {l \o [i \in 1..BatchSize |-> d] : l \in DecisionLogs(k - 1), d \in DecisionSamples}

\* the counts and averages of the data of computeChapter3Metrics
computeChapter3Metrics(run) ==
    LET chapter3Engagements == SelectSeq(run.engagements, LAMBDA e : e.inGameMinute >= 180)
        baselineEngagements == SelectSeq(chapter3Engagements, LAMBDA e : e.inGameMinute < 220)
        postChangeEngagements == SelectSeq(chapter3Engagements, LAMBDA e : e.inGameMinute >= 220)
    IN  [totalEngagements |-> Len(chapter3Engagements),
         baselineEngagements |-> Len(baselineEngagements),
         postChangeEngagements |-> Len(postChangeEngagements),
         baselineSuspicion |-> Ratio(SumSeq(baselineEngagements, LAMBDA e : e.suspicionDelta),
                                     Len(baselineEngagements)),
         postChangeSuspicion |-> Ratio(SumSeq(postChangeEngagements, LAMBDA e : e.suspicionDelta),
                                       Len(postChangeEngagements))]

\* any run at the moment the summary scene is entered
SnapshotInit ==
    /\ \E accounts \in {<<>>, Fleet, TriageFleet, SafeFleet},
          tweets \in {<<>>, Timeline, SubSeq(Timeline, 1, 2)},
          log \in EngagementLogs(MaxBursts),
          decisions \in DecisionLogs(MaxBatches) :
            state = [NewRun EXCEPT !.currentSceneId = "chapter3",
                                   !.accounts = accounts, !.tweets = tweets,
                                   !.engagements = Numbered(log),
                                   !.actionIdCounter = Len(log),
                                   !.triageDecisions = decisions]
    /\ lastResult = NoResult
    /\ chapter3State = createDefaultState
    /\ timeBudget = 0
    /\ currentAccountIndex = 0
    /\ triageQueue = <<>>
    /\ processedAccounts = {}
    /\ isComplete = TRUE
    /\ hist = NoHistory

\* SummaryScene.init: computeFinalScores
ComputeFinalScores ==
    /\ state.currentSceneId # "summary"
    /\ \E r \in {computeDerivedScores(exportGameRun(state))} :
           /\ state' = [state EXCEPT !.currentSceneId = "summary", !.derivedScores = r]
           /\ lastResult' = [op |-> "scores", scores |-> r,
                             chapter3 |-> computeChapter3Metrics(exportGameRun(state))]
    /\ UNCHANGED <<ModuleState, isComplete, hist>>

ScoresNext == ComputeFinalScores

SpecScores == SnapshotInit /\ [][ScoresNext]_vars

ScoreNames ==
    {"patternRealism", "riskDiscipline", "strategicSensitivity",
     "operationalPrioritization", "autonomySignals"}

\* C9: for every run snapshot, the empty one included, each of the five
\* scores computeDerivedScores returns is a number in [0,100].
C9_ScoresWithinRange ==
    lastResult.op = "scores" =>
        /\ DOMAIN lastResult.scores = ScoreNames
        /\ \A name \in ScoreNames : lastResult.scores[name] \in 0..100

\* the scores of a snapshot with no executed action, no triage decision, no
\* account and no tweet
C9_Witness ==
    /\ lastResult.op = "scores"
    /\ state.engagements = <<>>
    /\ state.triageDecisions = <<>>
    /\ state.accounts = <<>>
    /\ state.tweets = <<>>

--------------------------------------------------------------------------
(* Two runs of the open engagement phase fed the same calls                *)

\* the wall clock of the second run
LaterClock == {1}

\* two runs over the same accounts and tweets, started at different times;
\* hist.twin is the GameState of the second run
TwinInit ==
    /\ state = initChapter1([NewRun EXCEPT !.currentSceneId = "chapter1",
                                           !.accounts = Fleet, !.tweets = Timeline], 0)
    /\ lastResult = NoResult
    /\ chapter3State = createDefaultState
    /\ timeBudget = 0
    /\ currentAccountIndex = 0
    /\ triageQueue = <<>>
    /\ processedAccounts = {}
    /\ isComplete = FALSE
    /\ hist = [NoHistory EXCEPT !.twin =
                  initChapter1([NewRun EXCEPT !.currentSceneId = "chapter1",
                                              !.accounts = Fleet, !.tweets = Timeline], 1)]

\* the schedule button, pressed with the same selection in both runs
TwinClick(selectedAccounts, queuedActions, tweetId) ==
    /\ state.currentSceneId # "summary"
    /\ \E r \in {onScheduleClick(state, selectedAccounts, queuedActions, tweetId)},
          t \in {onScheduleClick(hist.twin, selectedAccounts, queuedActions, tweetId)} :
           /\ state' = r.state
           /\ hist' = [hist EXCEPT !.twin = t.state]
           /\ lastResult' = [op |-> "click", accepted |-> r.result, twinAccepted |-> t.result]
    /\ UNCHANGED <<ModuleState, isComplete>>

\* the same scheduleEngagement call in both runs
TwinSchedule(c) ==
    /\ state.currentSceneId # "summary"
    /\ \E r \in {scheduleEngagement(state, c[1], c[2], c[3], c[4], c[5])},
          t \in {scheduleEngagement(hist.twin, c[1], c[2], c[3], c[4], c[5])} :
           /\ state' = r.state
           /\ hist' = [hist EXCEPT !.twin = t.state]
           /\ lastResult' = [op |-> "schedule", args |-> c, result |-> r.result,
                             twinResult |-> t.result]
    /\ UNCHANGED <<ModuleState, isComplete>>

\* the same advance call in both runs, with the same draw of Math.random and
\* each run's own wall clock
TwinAdvance(deltaMs, random, now, later) ==
    /\ state.currentSceneId # "summary"
    /\ state.inGameMinutes + ToGameMinutes(deltaMs) <= 4 * MaxMinute
    /\ \E r \in {updateChapter1(state, deltaMs, random, now)},
          t \in {updateChapter1(hist.twin, deltaMs, random, later)} :
           /\ state' = r.state
           /\ hist' = [hist EXCEPT !.twin = t.state]
           /\ lastResult' = [op |-> "update", deltaMs |-> deltaMs,
                             processedActions |-> r.processedActions,
                             notices |-> r.notices, twinNotices |-> t.notices]
    /\ UNCHANGED <<ModuleState, isComplete>>

\* SummaryScene.init in both runs
TwinSummary ==
    /\ state.currentSceneId # "summary"
    /\ \E r \in {computeDerivedScores(exportGameRun(state))},
          t \in {computeDerivedScores(exportGameRun(hist.twin))} :
           /\ state' = [state EXCEPT !.currentSceneId = "summary", !.derivedScores = r]
           /\ hist' = [hist EXCEPT !.twin =
                          [@ EXCEPT !.currentSceneId = "summary", !.derivedScores = t]]
           /\ lastResult' = [op |-> "scores", scores |-> r]
    /\ UNCHANGED <<ModuleState, isComplete>>

TwinNext ==
    \/ \E t \in {"tweet_1", "tweet_2"} : TwinClick(FullSelection, AllActions, t)
    \/ \E c \in ApiCalls : TwinSchedule(c)
    \/ \E d \in Deltas, r \in Randoms, now \in Clock, later \in LaterClock :
          TwinAdvance(d, r, now, later)
    \/ TwinSummary

SpecTwin == TwinInit /\ [][TwinNext]_vars

Statuses(s) == [i \in 1..Len(s.accounts) |-> s.accounts[i].status]

--------------------------------------------------------------------------
(* Advance calls that cross several minute boundaries                      *)

\* frame deltas of one, two and three simulated minutes
LongDeltas == {5000, 10000, 15000}

OrderNext ==
    \/ ScheduleClick(<< "acc_1", "acc_2" >>, << "like", "retweet" >>, "tweet_1")
    \/ \E c \in ApiCalls : ScheduleCall(c)
    \/ ScheduleWave(<< "acc_2", "acc_3" >>, "tweet_2", "retweet", "staggered", 1)
    \/ \E d \in LongDeltas, r \in Randoms, now \in Clock : Chapter1Update(d, r, now)

SpecOrder == EngagementInit /\ [][OrderNext]_vars

\* the place of an executed record's action in a pending queue (0: not in it)
QueuePlace(queue, e) ==
    IF \E i \in 1..Len(queue) : Triple(queue[i]) = Triple(e)
    THEN CHOOSE i \in 1..Len(queue) : Triple(queue[i]) = Triple(e)
    ELSE 0

\* C11: the records one advance call appends to the executed log are ordered
\* by ascending inGameMinute, and records of the same minute are in the order
\* their actions stood in the pending queue.
C11_MinuteThenQueueOrder ==
    lastResult.op = "update" =>
        \A i, j \in 1..Len(Appended) :
            i < j =>
                /\ Appended[i].inGameMinute <= Appended[j].inGameMinute
                /\ QueuePlace(lastResult.queueBefore, Appended[i]) > 0
                /\ Appended[i].inGameMinute = Appended[j].inGameMinute =>
                      QueuePlace(lastResult.queueBefore, Appended[i])
                        < QueuePlace(lastResult.queueBefore, Appended[j])

\* one call that executed actions of two minutes, the later minute's action
\* standing first in the queue, and two actions of one minute
C11_Witness ==
    /\ lastResult.op = "update"
    /\ \E i, j \in 1..Len(Appended) :
          /\ i < j
          /\ Appended[i].inGameMinute < Appended[j].inGameMinute
          /\ QueuePlace(lastResult.queueBefore, Appended[i])
               > QueuePlace(lastResult.queueBefore, Appended[j])
    /\ \E i, j \in 1..Len(Appended) :
          i < j /\ Appended[i].inGameMinute = Appended[j].inGameMinute

\* C12: the processedActions count one advance call returns equals the number
\* of records the call appended to the executed log.
C12_ProcessedCountIsAppended ==
    lastResult.op = "update" => lastResult.processedActions = Len(Appended)

--------------------------------------------------------------------------
(* Pending actions that name an account or a tweet the state does not hold *)

StrayCalls ==
    { << "acc_9", "tweet_1", "like", 1, NoTone >>,
      << "acc_1", "tweet_9", "reply", 2, NoTone >>,
      << "acc_1", "tweet_1", "like", 1, NoTone >>,
      << "acc_2", "tweet_1", "like", 2, NoTone >> }

StrayNext ==
    \/ \E c \in StrayCalls : ScheduleCall(c)
    \/ \E d \in LongDeltas, r \in Randoms, now \in Clock : Chapter1Update(d, r, now)

SpecStray == EngagementInit /\ [][StrayNext]_vars

\* a pending action whose account or tweet is not found
Stray(e) == FindAccount(state, e.accountId) = <<>> \/ FindTweet(state, e.tweetId) = <<>>

\* the places, in the queue before the last advance call, of the stray actions
\* that were due in the minutes the call processed
DueStray ==
    {i \in 1..Len(lastResult.queueBefore) :
        /\ Stray(lastResult.queueBefore[i])
        /\ lastResult.queueBefore[i].scheduledMinute
             > FloorMinute(state.inGameMinutes - ToGameMinutes(lastResult.deltaMs))
        /\ lastResult.queueBefore[i].scheduledMinute <= FloorMinute(state.inGameMinutes)}

\* the stray actions leave no executed record and leave the queue
StrayDropped ==
    (lastResult.op = "update" /\ DueStray # {}) =>
        \A i \in DueStray :
            /\ \A j \in 1..Len(Appended) :
                  Triple(Appended[j]) # Triple(lastResult.queueBefore[i])
            /\ \A j \in 1..Len(state.engagementQueue) :
                  Triple(state.engagementQueue[j]) # Triple(lastResult.queueBefore[i])

\* C16: when a due pending action references an account or tweet that is not
\* in the state, the advance call appends no record for it, removes it from
\* the queue, and returns a notice about it.
C16_StrayReferenceNoticed ==
    /\ StrayDropped
    /\ (lastResult.op = "update" /\ DueStray # {}) => Len(lastResult.notices) >= Cardinality(DueStray)

--------------------------------------------------------------------------
(* Actions offered for a minute that has already begun                     *)

LateNext ==
    \/ \E c \in ApiCalls : ScheduleCall(c)
    \/ ScheduleClick(<< "acc_1" >>, << "like" >>, "tweet_1")
    \/ \E d \in Deltas, r \in Randoms, now \in Clock : Chapter1Update(d, r, now)

SpecLate == EngagementInit /\ [][LateNext]_vars

\* the simulated minute named by a pending action has begun
Overdue(e) == e.scheduledMinute <= FloorMinute(state.inGameMinutes)

\* the action of call c is pending although its minute has begun
OverdueInQueue(c) ==
    \E i \in 1..Len(state.engagementQueue) :
        /\ Triple(state.engagementQueue[i]) = <<c[1], c[2], c[3]>>
        /\ state.engagementQueue[i].scheduledMinute = c[4]
        /\ Overdue(state.engagementQueue[i])

\* C17: every accepted action is removed from the pending queue once simulated
\* time has passed its target minute, also when that minute was not later than
\* the simulated minute at scheduling time: an advance call leaves no pending
\* action behind whose minute has begun.
C17_NoOverdueAfterAdvance ==
    lastResult.op = "update" =>
        \A i \in 1..Len(state.engagementQueue) : ~Overdue(state.engagementQueue[i])

\* what the code does with such an action: no later step removes it
OverdueStays ==
    [][\A c \in ApiCalls : OverdueInQueue(c) => OverdueInQueue(c)']_vars

---------------------------------------------------------------------------
(* Waves over accounts of which some are refused                          *)

WaveList == << "acc_1", "acc_2", "acc_3", "acc_4" >>

Patterns == {"burst", "staggered", "slowBurn"}

WaveNext ==
    \/ \E t \in {"tweet_2", "tweet_3"} : ScheduleClick(<< "acc_1" >>, AllActions, t)
    \/ ScheduleClick(<< "acc_1" >>, << "like", "reply" >>, "tweet_1")
    \/ ScheduleClick(<< "acc_2" >>, << "retweet" >>, "tweet_1")
    \/ \E pattern \in Patterns : ScheduleWave(WaveList, "tweet_1", "retweet", pattern, 2)
    \/ \E d \in Deltas, now \in Clock : Chapter1Update(d, 0, now)

SpecWave == EngagementInit /\ [][WaveNext]_vars

\* the per-pattern delay of the account at position index (from 0)
WaveOffset(pattern, index) ==
    CASE pattern = "burst" -> index \div 3
      [] pattern = "staggered" -> 2 * index
      [] pattern = "slowBurn" -> 5 * index

\* what the wave a offers for the account at position index
Offered(a, index) ==
    [accountId |-> a.accountIds[index + 1], tweetId |-> a.tweetId, type |-> a.type,
     replyTone |-> NoTone,
     scheduledMinute |-> a.startMinute + WaveOffset(a.pattern, index)]

\* the state the last wave call found
BeforeWave == [state EXCEPT !.engagementQueue = lastResult.queue]

Duplicate(s, e) == hasAccountEngagedTweet(s, e.accountId, e.tweetId, e.type)

RateLimited(s, e) ==
    AccountActionsInHour(s, e.accountId, e.scheduledMinute) >= MAX_ACTIONS_PER_ACCOUNT_PER_HOUR

\* the offers of wave a from position index on that are neither duplicate nor
\* rate-limited in s (the accounts of a wave are distinct)
RECURSIVE ExpectedWave(_, _, _)
ExpectedWave(s, a, index) ==
    IF index >= Len(a.accountIds) THEN <<>>
    ELSE (IF Duplicate(s, Offered(a, index)) \/ RateLimited(s, Offered(a, index))
          THEN <<>> ELSE << Offered(a, index) >>)
         \o ExpectedWave(s, a, index + 1)

\* C18: scheduleEngagementWave returns the number of entries it added: the
\* queue grows by exactly the offers (at startMinute + floor(i/3), + 2i, + 5i
\* for burst, staggered, slowBurn) of the accounts that are neither duplicate
\* nor rate-limited, in list order, and a refused account does not stop the
\* accounts after it.
C18_WaveCountsWhatItAdds ==
    lastResult.op = "wave" =>
        /\ state.engagementQueue =
               lastResult.queue \o ExpectedWave(BeforeWave, lastResult.args, 0)
        /\ lastResult.result = Len(state.engagementQueue) - Len(lastResult.queue)

\* a slow-burn wave whose first account is rate-limited and whose later
\* accounts are accepted
C18_Witness ==
    /\ lastResult.op = "wave"
    /\ lastResult.args.pattern = "slowBurn"
    /\ RateLimited(BeforeWave, Offered(lastResult.args, 0))
    /\ ~Duplicate(BeforeWave, Offered(lastResult.args, 0))
    /\ Duplicate(BeforeWave, Offered(lastResult.args, 1))
    /\ lastResult.result = 2
    /\ state.engagementQueue[Len(state.engagementQueue)].scheduledMinute
           = lastResult.args.startMinute + 15

---------------------------------------------------------------------------
(* Scheduling calls made twice in a row                                    *)

RepeatCalls ==
    { << "acc_1", "tweet_1", "retweet", 2, NoTone >>,
      << "acc_2", "tweet_1", "retweet", 2, NoTone >> }

\* the caller makes the scheduleEngagement call it has just made once more
ScheduleCallAgain ==
    /\ lastResult.op = "schedule"
    /\ \E r \in {scheduleEngagement(state, lastResult.args[1], lastResult.args[2],
                                    lastResult.args[3], lastResult.args[4],
                                    lastResult.args[5])} :
           /\ state' = r.state
           /\ lastResult' = [op |-> "scheduleAgain", args |-> lastResult.args,
                             first |-> lastResult.result, result |-> r.result,
                             queue |-> state.engagementQueue]
           /\ hist' = [hist EXCEPT !.acceptedCalls =
                           IF r.result THEN @ \cup {lastResult.args} ELSE @]
    /\ UNCHANGED <<ModuleState, isComplete>>

\* the caller makes the scheduleEngagementWave call it has just made once more
ScheduleWaveAgain ==
    /\ lastResult.op = "wave"
    /\ \E r \in {scheduleEngagementWave(state, lastResult.args.accountIds,
                                        lastResult.args.tweetId, lastResult.args.type,
                                        lastResult.args.pattern,
                                        lastResult.args.startMinute)} :
           /\ state' = r.state
           /\ lastResult' = [op |-> "waveAgain", args |-> lastResult.args,
                             first |-> lastResult.result, result |-> r.result,
                             queue |-> state.engagementQueue]
    /\ UNCHANGED <<ModuleState, isComplete, hist>>

RepeatNext ==
    \/ \E t \in {"tweet_2", "tweet_3"} : ScheduleClick(<< "acc_1" >>, AllActions, t)
    \/ ScheduleClick(<< "acc_1" >>, << "like", "reply" >>, "tweet_1")
    \/ \E c \in RepeatCalls : ScheduleCall(c)
    \/ ScheduleWave(WaveList, "tweet_1", "retweet", "staggered", 2)
    \/ ScheduleCallAgain
    \/ ScheduleWaveAgain
    \/ \E now \in Clock : Chapter1Update(10000, 0, now)

SpecRepeat == EngagementInit /\ [][RepeatNext]_vars

\* C19: a scheduling call repeated at once with identical arguments changes
\* nothing: the second scheduleEngagement returns false, the second
\* scheduleEngagementWave returns 0, and the pending queue is as the first
\* call left it.
C19_RepeatChangesNothing ==
    /\ lastResult.op = "scheduleAgain" =>
           lastResult.result = FALSE /\ state.engagementQueue = lastResult.queue
    /\ lastResult.op = "waveAgain" =>
           lastResult.result = 0 /\ state.engagementQueue = lastResult.queue

\* a wave that was accepted for some accounts and refused for a rate-limited
\* one has been repeated
C19_Witness ==
    /\ lastResult.op = "waveAgain"
    /\ lastResult.first \in 1..(Len(WaveList) - 1)
    /\ \E i \in 0..(Len(WaveList) - 1) :
           /\ RateLimited(state, Offered(lastResult.args, i))
           /\ ~Duplicate(state, Offered(lastResult.args, i))

---------------------------------------------------------------------------
(* Penalties at a minute boundary                                          *)

PenaltyNext ==
    \/ \E t \in {"tweet_1", "tweet_2"} : ScheduleClick(FullSelection, AllActions, t)
    \/ ScheduleClick(<< "acc_2", "acc_3" >>, << "like", "retweet" >>, "tweet_3")
    \/ \E d \in Deltas, r \in Randoms, now \in Clock : Chapter1Update(d, r, now)

SpecPenalty == EngagementInit /\ [][PenaltyNext]_vars

\* the last advance call entered a new simulated minute, so it evaluated the
\* penalties
PenaltyEvaluated ==
    /\ lastResult.op = "update"
    /\ FloorMinute(state.inGameMinutes)
           > FloorMinute(state.inGameMinutes - ToGameMinutes(lastResult.deltaMs))

\* the accounts whose status the last advance call changed
StatusChanged == {i \in 1..Len(state.accounts) :
                     state.accounts[i].status # lastResult.statusBefore[i]}

ActiveBefore == {i \in 1..Len(state.accounts) : lastResult.statusBefore[i] = "active"}

FrontlineBefore == {i \in ActiveBefore : state.accounts[i].riskClass = "frontline"}

\* C20: one penalty evaluation changes the status of at most one account and
\* applies only the highest band of the meter after decay: at 80 or more one
\* active frontline account (if there is one) becomes banned and none is
\* flagged, from 60 to below 80 one active account (if there is one) becomes
\* flagged, from 40 to below 60 and below no status changes.
C20_OnePenaltyPerBoundary ==
    PenaltyEvaluated =>
        /\ Cardinality(StatusChanged) <= 1
        /\ state.suspicionMeter >= 80000 =>
               /\ StatusChanged \subseteq FrontlineBefore
               /\ \A i \in StatusChanged : state.accounts[i].status = "banned"
               /\ FrontlineBefore # {} => Cardinality(StatusChanged) = 1
        /\ (state.suspicionMeter >= 60000 /\ state.suspicionMeter < 80000) =>
               /\ StatusChanged \subseteq ActiveBefore
               /\ \A i \in StatusChanged : state.accounts[i].status = "flagged"
               /\ ActiveBefore # {} => Cardinality(StatusChanged) = 1
        /\ state.suspicionMeter < 60000 => StatusChanged = {}

\* the meter is critical at a second boundary: one frontline account was
\* banned before, the other is banned now
C20_Witness ==
    /\ PenaltyEvaluated
    /\ state.suspicionMeter >= 80000
    /\ lastResult.meterBefore >= 80000
    /\ Cardinality(StatusChanged) = 1
    /\ \E i \in 1..Len(state.accounts) :
           /\ lastResult.statusBefore[i] = "banned"
           /\ state.accounts[i].riskClass = "frontline"

---------------------------------------------------------------------------
(* The telemetry log                                                       *)

\* the log is the log as it was, followed by n new entries
Extended(before, after, n) ==
    /\ Len(after) = Len(before) + n
    /\ SubSeq(after, 1, Len(before)) = before

\* C21: every meaningful mutation appends exactly one entry to
\* state.telemetryLog and the log is never shortened or rewritten: a successful
\* scheduleEngagement appends one entry, an advance call one entry per executed
\* action.
C21_OneEntryPerMutation ==
    /\ (lastResult.op = "schedule" /\ lastResult.result) =>
           Extended(lastResult.before.telemetryLog, state.telemetryLog, 1)
    /\ lastResult.op = "update" =>
           Extended(lastResult.telemetryBefore, state.telemetryLog,
                    Len(state.engagements) - lastResult.logBefore)

\* the part the code keeps: the log only grows, by one entry per executed action
TelemetryOfExecution ==
    /\ lastResult.op = "schedule" => state.telemetryLog = lastResult.before.telemetryLog
    /\ lastResult.op = "update" =>
           Extended(lastResult.telemetryBefore, state.telemetryLog,
                    Len(state.engagements) - lastResult.logBefore)

---------------------------------------------------------------------------
(* Pending actions of accounts that are no longer active                   *)

\* the schedule button with the accounts selected in another order
IdleNext ==
    \/ \E t \in TweetIds :
          ScheduleClick(<< "acc_2", "acc_3", "acc_4", "acc_1" >>, AllActions, t)
    \/ \E d \in Deltas, r \in Randoms, now \in Clock : Chapter1Update(d, r, now)

SpecIdle == EngagementInit /\ [][IdleNext]_vars

\* the status account accountId had when the last advance call began
StatusBeforeOf(accountId) ==
    lastResult.statusBefore[CHOOSE i \in 1..Len(state.accounts) :
                                state.accounts[i].id = accountId]

\* the places, in the queue before the last advance call, of the actions due
\* in the minutes the call processed
DuePlaces ==
    {i \in 1..Len(lastResult.queueBefore) :
        /\ lastResult.queueBefore[i].scheduledMinute
             > FloorMinute(state.inGameMinutes - ToGameMinutes(lastResult.deltaMs))
        /\ lastResult.queueBefore[i].scheduledMinute <= FloorMinute(state.inGameMinutes)}

\* those of them whose account was not active
IdleDue ==
    {i \in DuePlaces : StatusBeforeOf(lastResult.queueBefore[i].accountId) # "active"}

\* the action at place i is among the first MAX_ACTIONS_PER_MINUTE of its minute
WithinCap(i) ==
    Cardinality({j \in 1..(i - 1) :
                    lastResult.queueBefore[j].scheduledMinute
                      = lastResult.queueBefore[i].scheduledMinute})
      < MAX_ACTIONS_PER_MINUTE

SkipNotices(accountId) ==
    Count(lastResult.notices, LAMBDA n : n.kind = "skipped" /\ n.account = accountId)

\* no record for an account that was not active, and its due actions are gone
IdleNotExecuted ==
    /\ \A j \in 1..Len(Appended) : StatusBeforeOf(Appended[j].accountId) = "active"
    /\ \A i \in IdleDue :
          /\ \A j \in 1..Len(Appended) :
                Triple(Appended[j]) # Triple(lastResult.queueBefore[i])
          /\ \A j \in 1..Len(state.engagementQueue) :
                Triple(state.engagementQueue[j]) # Triple(lastResult.queueBefore[i])

\* C22 (as amended): every executed record belongs to an account that was
\* active when it was executed; the due actions of an account that is not
\* active are removed without being executed, with one skip notice for each of
\* them that is among the first 15 due actions of its minute.
C22_IdleSkippedWithinCap ==
    lastResult.op = "update" =>
        /\ IdleNotExecuted
        /\ \A a \in AccountIds :
              SkipNotices(a) = Cardinality({i \in IdleDue :
                                              /\ lastResult.queueBefore[i].accountId = a
                                              /\ WithinCap(i)})

\* C22 as stated: every due action of an account that is not active is removed
\* without being executed, with a skip notice.
C22_IdleSkippedWithNotice ==
    lastResult.op = "update" =>
        /\ IdleNotExecuted
        /\ \A a \in AccountIds :
              SkipNotices(a) = Cardinality({i \in IdleDue :
                                              lastResult.queueBefore[i].accountId = a})

\* an advance call that executed actions of active accounts and skipped the
\* due actions of one that was not active
C22_Witness ==
    /\ lastResult.op = "update"
    /\ Appended # <<>>
    /\ \E i \in IdleDue :
          /\ WithinCap(i)
          /\ SkipNotices(lastResult.queueBefore[i].accountId) >= 2

---------------------------------------------------------------------------
(* Refused scheduling calls                                                *)

\* the action the last scheduleEngagement call offered
OfferedCall ==
    [accountId |-> lastResult.args[1], tweetId |-> lastResult.args[2],
     type |-> lastResult.args[3], scheduledMinute |-> lastResult.args[4]]

\* C23: a scheduleEngagement call that returns false leaves the pending queue,
\* the executed log, the detection meter, the elapsed time, the action-id
\* counter and the telemetry log unchanged.
C23_RefusalChangesNothing ==
    (lastResult.op = "schedule" /\ ~lastResult.result) =>
        /\ state.engagementQueue = lastResult.before.engagementQueue
        /\ state.engagements = lastResult.before.engagements
        /\ state.suspicionMeter = lastResult.before.suspicionMeter
        /\ state.inGameMinutes = lastResult.before.inGameMinutes
        /\ state.actionIdCounter = lastResult.before.actionIdCounter
        /\ state.telemetryLog = lastResult.before.telemetryLog

\* a call refused because the account has 10 actions queued in the window, the
\* triple being new
C23_Witness ==
    /\ lastResult.op = "schedule"
    /\ ~lastResult.result
    /\ RateLimited(lastResult.before, OfferedCall)
    /\ ~Duplicate(lastResult.before, OfferedCall)
    /\ state.engagementQueue # <<>>

---------------------------------------------------------------------------
(* Decisions, skips and failed operations of the triage phase              *)

\* the account the editor shows, and an id no account has
DecideTargets ==
    {triageQueue[i] : i \in {currentAccountIndex + 1} \cap (1..Len(triageQueue))} \cup {"acc_9"}

DecideNext ==
    \/ OpenAccountDetail
    \/ \E i \in {0, 2} : RevealHistoryFlag("acc_1", i)
    \/ \E a \in DecideTargets, action \in {"keep", "park", "discard"}, now \in Clock :
          MakeTriageDecision(a, action, now)
    \/ SkipAccount

SpecDecide == TriageInit /\ [][DecideNext]_vars

\* what the last operation left of the module state and the decision log
PointerKept == currentAccountIndex = lastResult.before.currentAccountIndex

ProcessedKept == processedAccounts = lastResult.before.processedAccounts

DecisionsKept == state.triageDecisions = lastResult.before.state.triageDecisions

StatusKept(i) == state.accounts[i].status = lastResult.before.state.accounts[i].status

\* C24: a triage operation that reports failure (revealHistoryFlag returning
\* null, makeTriageDecision returning false) leaves the time budget, the
\* decision log, the processed set and the current-account pointer as they were.
C24_FailureChangesNothing ==
    (lastResult.op \in {"revealHistoryFlag", "makeTriageDecision"} /\ ~lastResult.result) =>
        /\ timeBudget = lastResult.budgetBefore
        /\ DecisionsKept
        /\ ProcessedKept
        /\ PointerKept

\* what the code keeps on a failure: everything but the budget
FailureKeepsAllButBudget ==
    (lastResult.op \in {"revealHistoryFlag", "makeTriageDecision"} /\ ~lastResult.result) =>
        /\ DecisionsKept
        /\ ProcessedKept
        /\ PointerKept
        /\ timeBudget \in {lastResult.budgetBefore,
                           lastResult.budgetBefore - CostOf(lastResult.op)}

\* the status a decision gives the account
StatusFor(action) ==
    CASE action = "keep" -> "active"
      [] action = "park" -> "parked"
      [] action = "discard" -> "discarded"

\* C25: a successful makeTriageDecision sets the account's status to active,
\* parked or discarded for keep, park or discard, appends exactly one
\* TriageDecision for that id, advances the pointer by one, debits the decision
\* cost, and changes the status of no other account.
C25_DecisionEffects ==
    (lastResult.op = "makeTriageDecision" /\ lastResult.result) =>
        /\ \A i \in 1..Len(state.accounts) :
              IF state.accounts[i].id = lastResult.accountId
              THEN state.accounts[i].status = StatusFor(lastResult.action)
              ELSE StatusKept(i)
        /\ Len(state.triageDecisions) = Len(lastResult.before.state.triageDecisions) + 1
        /\ SubSeq(state.triageDecisions, 1, Len(lastResult.before.state.triageDecisions))
              = lastResult.before.state.triageDecisions
        /\ state.triageDecisions[Len(state.triageDecisions)].accountId = lastResult.accountId
        /\ state.triageDecisions[Len(state.triageDecisions)].action = lastResult.action
        /\ currentAccountIndex = lastResult.before.currentAccountIndex + 1
        /\ timeBudget = lastResult.budgetBefore - TIME_COSTS.makeTriageDecision

\* the second account of the queue has been parked after the first was decided
C25_Witness ==
    /\ lastResult.op = "makeTriageDecision"
    /\ lastResult.result
    /\ lastResult.action = "park"
    /\ Len(state.triageDecisions) = 2
    /\ \E i \in 1..Len(state.accounts) :
          state.accounts[i].id = lastResult.accountId /\ state.accounts[i].status = "parked"

\* C26: skipAccount advances the current-account pointer by one and leaves the
\* time budget, the decision log, the processed set and every account's status
\* unchanged.
C26_SkipEffects ==
    lastResult.op = "skipAccount" =>
        /\ currentAccountIndex = lastResult.before.currentAccountIndex + 1
        /\ timeBudget = lastResult.budgetBefore
        /\ DecisionsKept
        /\ ProcessedKept
        /\ \A i \in 1..Len(state.accounts) : StatusKept(i)

\* an account was skipped after another was discarded
C26_Witness ==
    /\ lastResult.op = "skipAccount"
    /\ processedAccounts # {}
    /\ \E i \in 1..Len(state.accounts) : state.accounts[i].status = "discarded"
    /\ currentAccountIndex = 2

---------------------------------------------------------------------------
(* The reaction timestamp of the adaptive phase                            *)

\* C27: within a chapter firstCountermeasureTime is set once, by the first
\* successful applyCountermeasure after the rule-set swap, to the simulated
\* time of that call, and is not overwritten; a countermeasure before the swap
\* leaves it null; the reaction latency, when defined, is not negative.
C27_ReactionTimestamp ==
    [][/\ (chapter3State.firstCountermeasureTime # <<>> /\ lastResult'.op # "init") =>
              chapter3State'.firstCountermeasureTime = chapter3State.firstCountermeasureTime
       /\ (chapter3State.firstCountermeasureTime = <<>>
             /\ chapter3State'.firstCountermeasureTime # <<>>) =>
              /\ lastResult'.op = "countermeasure"
              /\ lastResult'.result
              /\ chapter3State.ruleChangeTriggered
              /\ chapter3State'.firstCountermeasureTime = << state.inGameMinutes >>
       /\ (lastResult'.op = "countermeasure" /\ lastResult'.result
             /\ chapter3State.firstCountermeasureTime = <<>>) =>
              (chapter3State'.firstCountermeasureTime # <<>>
                  <=> chapter3State.ruleChangeTriggered)
       /\ chapter3State'.firstCountermeasureTime # <<>> =>
              chapter3State'.firstCountermeasureTime[1] >= chapter3State'.ruleChangeTime
      ]_vars

\* a countermeasure before the swap, one after it that set the timestamp, and
\* a later one at a later time that left it alone
C27_Witness ==
    /\ lastResult.op = "countermeasure"
    /\ lastResult.result
    /\ hist.applied = 3
    /\ lastResult.before.firstCountermeasureTime # <<>>
    /\ chapter3State.firstCountermeasureTime = lastResult.before.firstCountermeasureTime
    /\ chapter3State.firstCountermeasureTime[1] > chapter3State.ruleChangeTime
    /\ state.inGameMinutes > chapter3State.firstCountermeasureTime[1]
    /\ \E i \in 1..Len(state.telemetryLog) :
          /\ state.telemetryLog[i].type = "countermeasure_applied"
          /\ \A k \in 1..i : state.telemetryLog[k].type # "rule_change"

---------------------------------------------------------------------------
(* Advance calls that cross more than one minute boundary under penalties  *)

BoundaryNext ==
    \/ \E t \in {"tweet_1", "tweet_2"} : ScheduleClick(FullSelection, AllActions, t)
    \/ \E d \in {5000, 10000}, r \in Randoms, now \in Clock : Chapter1Update(d, r, now)

SpecBoundary == EngagementInit /\ [][BoundaryNext]_vars

\* the minute boundaries the last advance call crossed
Crossed ==
    FloorMinute(state.inGameMinutes)
      - FloorMinute(state.inGameMinutes - ToGameMinutes(lastResult.deltaMs))

\* every record of the last advance call was executed in the first minute it
\* entered, so the meter did not rise after the first boundary
ExecutedAtFirstBoundary ==
    \A i \in 1..Len(Appended) :
        Appended[i].inGameMinute
          = FloorMinute(state.inGameMinutes - ToGameMinutes(lastResult.deltaMs)) + 1

\* C28: penalties are evaluated once per elapsed minute boundary: an advance
\* call that crosses k boundaries with the meter at or above the critical
\* threshold at each of them bans one active frontline account per boundary,
\* as k calls of one minute would.
C28_PenaltyPerBoundaryCrossed ==
    (/\ lastResult.op = "update"
     /\ Crossed >= 1
     /\ ExecutedAtFirstBoundary
     /\ state.suspicionMeter >= SUSPICION_THRESHOLDS.critical) =>
        Cardinality(StatusChanged) = Min(Crossed, Cardinality(FrontlineBefore))

\* what the code does: one evaluation per advance call that crosses a boundary
OnePenaltyPerCall ==
    (lastResult.op = "update" /\ state.suspicionMeter >= SUSPICION_THRESHOLDS.critical) =>
        Cardinality(StatusChanged) = Min(Min(Crossed, 1), Cardinality(FrontlineBefore))

---------------------------------------------------------------------------
(* The baseline snapshot of the adaptive phase                             *)

SnapshotNext ==
    \/ \E t \in {"tweet_1", "tweet_2"} : ScheduleClick(<< "acc_1" >>, << "like" >>, t)
    \/ \E d \in {100000}, now \in Clock : Chapter3Update(d, 0, now)
    \/ \E now \in Clock : Countermeasure([maxActionsPerAccountPerHour |-> 5], now)

SpecSnapshot == AdaptiveInit /\ [][SnapshotNext]_vars

\* the averages of the run s as the snapshot states them
SnapshotOf(s) ==
    [suspicionPerEngagement |->
         Ratio(SumSeq(s.engagements, LAMBDA e : e.suspicionDelta), Len(s.engagements)),
     bansPerEngagement |->
         Ratio(Count(s.accounts, LAMBDA a : a.status = "banned"), Len(s.engagements)),
     avgReach |-> Ratio(SumSeq(s.tweets, LAMBDA w : w.liveMetrics.impressions), Len(s.tweets)),
     totalEngagements |-> Len(s.engagements)]

\* C29: the baseline snapshot is written only by the rule-set swap, from the
\* state as it is before the swapping frame executes any action, and no later
\* tick, countermeasure or post-change capture modifies it.
C29_BaselineSnapshotOnce ==
    [][/\ chapter3State'.baselineMetrics # chapter3State.baselineMetrics =>
              /\ lastResult'.op = "update"
              /\ lastResult'.swapped
              /\ ~chapter3State.ruleChangeTriggered
       /\ (lastResult'.op = "update" /\ lastResult'.swapped) =>
              chapter3State'.baselineMetrics = SnapshotOf(state)
       /\ chapter3State.ruleChangeTriggered =>
              chapter3State'.baselineMetrics = chapter3State.baselineMetrics
      ]_vars

\* a snapshot of a run with executed actions, still in place after a tick
\* executed further actions under the post-change rule set and a
\* countermeasure was applied
C29_Witness ==
    /\ chapter3State.ruleChangeTriggered
    /\ chapter3State.baselineMetrics.totalEngagements >= 1
    /\ chapter3State.postChangeMetrics.totalEngagements >= 1
    /\ Len(state.engagements) > chapter3State.baselineMetrics.totalEngagements
    /\ chapter3State.firstCountermeasureTime # <<>>

---------------------------------------------------------------------------
(* The per-account hourly cap after a countermeasure                       *)

\* the cap of the "Slow Down" button of the adaptive phase
LoweredCap == 4

CapCalls ==
    { << "acc_1", w, a, 1, NoTone >> :
          w \in {"tweet_1", "tweet_2"}, a \in {"like", "reply", "retweet"} }
        \ { << "acc_1", "tweet_2", "retweet", 1, NoTone >> }

CapNext ==
    \/ \E c \in CapCalls : ScheduleCall(c)
    \/ \E now \in Clock : Countermeasure([maxActionsPerAccountPerHour |-> LoweredCap], now)

SpecCap == AdaptiveInit /\ [][CapNext]_vars

\* the queued actions of the account in the 60 minutes that end at the target
QueuedInWindow(s, accountId, target) ==
    Cardinality({i \in 1..Len(s.engagementQueue) :
                    /\ s.engagementQueue[i].accountId = accountId
                    /\ s.engagementQueue[i].scheduledMinute >= target - 60
                    /\ s.engagementQueue[i].scheduledMinute <= target})

\* C30: after a successful countermeasure that sets the hourly cap to M < 10,
\* a scheduling call for an account with M actions already queued in the
\* window of the target minute is rejected.
C30_LoweredCapRejects ==
    (/\ lastResult.op = "schedule"
     /\ chapter3State.countermeasureUpdatesUsed >= 1
     /\ chapter3State.currentSettings.maxActionsPerAccountPerHour < MAX_ACTIONS_PER_ACCOUNT_PER_HOUR
     /\ QueuedInWindow(lastResult.before, lastResult.args[1], lastResult.args[4])
            >= chapter3State.currentSettings.maxActionsPerAccountPerHour) =>
        ~lastResult.result

\* what the code does: the call is accepted whenever it is no duplicate and
\* fewer than ten actions are queued in the window, whatever the settings are
PacingIgnoresSettings ==
    (/\ lastResult.op = "schedule"
     /\ ~hasAccountEngagedTweet(lastResult.before, lastResult.args[1], lastResult.args[2],
                                lastResult.args[3])
     /\ QueuedInWindow(lastResult.before, lastResult.args[1], lastResult.args[4])
            < MAX_ACTIONS_PER_ACCOUNT_PER_HOUR) =>
        /\ lastResult.result
        /\ Len(state.engagementQueue) = Len(lastResult.before.engagementQueue) + 1

---------------------------------------------------------------------------
(* The detection delta under the two rule sets                             *)

\* actions offered to calculateSuspicionDelta; acc_9 is no account of the run
ProbeActions ==
    { [accountId |-> a, tweetId |-> "tweet_1", type |-> y, replyTone |-> o] :
          a \in {"acc_1", "acc_2", "acc_9"}, y \in {"like", "quote"},
          o \in {NoTone, "technicalCritique"} }

\* a call of calculateSuspicionDelta with each of the two rule sets
ProbeDelta(action) ==
    /\ lastResult' = [op |-> "delta", action |-> action,
                      baseline |-> calculateSuspicionDelta(action, state, BASELINE_RULES),
                      postChange |-> calculateSuspicionDelta(action, state, POST_CHANGE_RULES)]
    /\ UNCHANGED <<state, hist, ModuleState, isComplete>>

DeltaNext ==
    \/ ScheduleClick(FullSelection, AllActions, "tweet_1")
    \/ \E now \in Clock : Chapter1Update(5000, 0, now)
    \/ \E a \in ProbeActions : ProbeDelta(a)

SpecDelta == EngagementInit /\ [][DeltaNext]_vars

\* the four factor values of the action; the persona mismatch needs the
\* account, and the overuse factor applies to frontline accounts only
FactorsZero(action, s) ==
    /\ calculateClusterSynchrony(action.tweetId, s, CLUSTER_WINDOW) = 0
    /\ calculateRepetitionFactor(action.accountId, action.tweetId, s) = 0
    /\ \A i \in 1..Len(s.accounts) :
           s.accounts[i].id = action.accountId =>
               /\ calculatePersonaMismatch(s.accounts[i], action) = 0
               /\ s.accounts[i].riskClass = "frontline" =>
                      calculateHighValueOveruse(action.accountId, s, 30) = 0

KnownAccount(action, s) == \E i \in 1..Len(s.accounts) : s.accounts[i].id = action.accountId

\* C31 as stated: for every action and every state the delta under the
\* post-change rule set is at least the delta under the baseline rule set,
\* both are >= 0, and the two are equal exactly when the four factor values
\* of the action are zero.
C31_StricterExactlyOnFactors ==
    lastResult.op = "delta" =>
        /\ lastResult.baseline >= 0
        /\ lastResult.postChange >= lastResult.baseline
        /\ (lastResult.postChange = lastResult.baseline) <=> FactorsZero(lastResult.action, state)

\* C31 (amended): the same for every action of an account of the run; for an
\* action whose account is not in the run both values are 0 whatever the
\* factor values are.
C31_StricterForKnownAccounts ==
    lastResult.op = "delta" =>
        /\ lastResult.baseline >= 0
        /\ lastResult.postChange >= lastResult.baseline
        /\ KnownAccount(lastResult.action, state) =>
               ((lastResult.postChange = lastResult.baseline)
                    <=> FactorsZero(lastResult.action, state))
        /\ ~KnownAccount(lastResult.action, state) =>
               (lastResult.postChange = 0 /\ lastResult.baseline = 0)

\* an action of a frontline account with cluster, repetition and overuse
\* factors above zero, dearer under the post-change rule set
C31_Witness ==
    /\ lastResult.op = "delta"
    /\ lastResult.action.accountId = "acc_1"
    /\ calculateClusterSynchrony("tweet_1", state, CLUSTER_WINDOW) > 0
    /\ calculateRepetitionFactor("acc_1", "tweet_1", state) > 0
    /\ calculateHighValueOveruse("acc_1", state, 30) > 0
    /\ lastResult.postChange > lastResult.baseline

---------------------------------------------------------------------------
(* The rule set of the actions executed around the swap minute             *)

\* C32: in the adaptive phase every action executed at a minute >=
\* RULE_CHANGE_MINUTE has its delta computed with the post-change rule set
\* and every action executed at an earlier minute with the baseline rule set,
\* for every tick cadence.
C32_RuleSetByExecutionMinute ==
    lastResult.op = "update" =>
        \A i \in 1..Len(Appended) :
            IF Appended[i].inGameMinute >= RULE_CHANGE_MINUTE
            THEN lastResult.ruleSet = "post_change"
            ELSE lastResult.ruleSet = "baseline"

\* what the code does: one rule set per frame, chosen by the simulated time
\* at the start of the frame
RuleSetByFrameStart ==
    lastResult.op = "update" =>
        IF lastResult.timeBefore >= 4 * RULE_CHANGE_MINUTE
        THEN lastResult.ruleSet = "post_change"
        ELSE lastResult.ruleSet = "baseline"

---------------------------------------------------------------------------
(* One advance call against several smaller ones                           *)

\* two simulated minutes delivered as two calls of one minute each; the
\* record keeps what one call of two minutes makes of the same state
SplitAdvance(random, now) ==
    /\ ~isComplete
    /\ state.inGameMinutes + ToGameMinutes(10000) <= 4 * MaxMinute
    /\ \E whole \in {updateChapter1(state, 10000, random, now)},
          first \in {updateChapter1(state, 5000, random, now)} :
       \E second \in {updateChapter1(first.state, 5000, random, now)} :
           /\ state' = second.state
           /\ lastResult' = [op |-> "split", whole |-> whole.state,
                             logBefore |-> Len(state.engagements),
                             statusBefore |-> [i \in 1..Len(state.accounts) |->
                                                  state.accounts[i].status]]
           /\ isComplete' = (second.state.inGameMinutes >= 4 * 180)
    /\ UNCHANGED <<ModuleState, hist>>

CadenceNext ==
    \/ \E t \in {"tweet_1", "tweet_2"} : ScheduleClick(FullSelection, AllActions, t)
    \/ \E now \in Clock : Chapter1Update(5000, 0, now)
    \/ \E now \in Clock : SplitAdvance(0, now)

SpecCadence == EngagementInit /\ [][CadenceNext]_vars

StatusOf(s) == [i \in 1..Len(s.accounts) |-> s.accounts[i].status]

\* the executed log is the same whichever way the time is delivered
SameLogEitherWay ==
    lastResult.op = "split" => state.engagements = lastResult.whole.engagements

\* C33: the same total simulated time delivered as one advance call or as
\* several smaller calls, on the same pending queue, gives the same executed
\* log and the same account status changes.
C33_CadenceIndependence ==
    lastResult.op = "split" =>
        /\ state.engagements = lastResult.whole.engagements
        /\ StatusOf(state) = StatusOf(lastResult.whole)

---------------------------------------------------------------------------
(* One run through the open, the triage and the adaptive phase             *)

\* the accounts and tweets Chapter3Scene.init generates: the id counters of
\* the generators go on from the earlier chapters
AdaptiveFleet ==
    << Account("acc_5", "frontline", {"defi"}, 20, <<>>),
       Account("acc_6", "mid", {"normie"}, 8, <<>>) >>

AdaptiveTimeline == << Tweet("tweet_4", "GTE_main", "reach", 2400, 0) >>

\* advanceToNextScene in chapter1 and Chapter2Scene.init
EnterChapter2(now) ==
    /\ state.currentSceneId = "chapter1"
    /\ \E q \in Shuffles([i \in 1..Len(TriageCandidates(state)) |->
                             TriageCandidates(state)[i].id]) :
       \E r \in {initChapter2([state EXCEPT !.currentSceneId = "chapter2"], q, now)} :
           /\ state' = r.state
           /\ timeBudget' = r.timeBudget
           /\ currentAccountIndex' = r.currentAccountIndex
           /\ processedAccounts' = r.processedAccounts
           /\ triageQueue' = r.triageQueue
    /\ lastResult' = [op |-> "init"]
    /\ isComplete' = FALSE
    /\ UNCHANGED <<chapter3State, hist>>

\* advanceToNextScene in chapter2 and Chapter3Scene.init
EnterChapter3(now) ==
    /\ state.currentSceneId = "chapter2"
    /\ \E r \in {initChapter3([state EXCEPT !.currentSceneId = "chapter3",
                                            !.accounts = AdaptiveFleet,
                                            !.tweets = AdaptiveTimeline], now)} :
           /\ state' = r.state
           /\ chapter3State' = r.chapter3State
    /\ lastResult' = [op |-> "init"]
    /\ isComplete' = FALSE
    /\ UNCHANGED <<timeBudget, currentAccountIndex, triageQueue, processedAccounts, hist>>

RunNext ==
    \/ /\ state.currentSceneId = "chapter1"
       /\ ScheduleClick(<< "acc_2", "acc_3" >>, << "like" >>, "tweet_1")
    \/ /\ state.currentSceneId = "chapter1"
       /\ \E now \in Clock : Chapter1Update(5000, 0, now)
    \/ \E now \in Clock : EnterChapter2(now)
    \/ \E now \in Clock : EnterChapter3(now)
    \/ /\ state.currentSceneId = "chapter3"
       /\ ScheduleClick(<< "acc_5", "acc_6" >>, << "like", "retweet" >>, "tweet_4")
    \/ /\ state.currentSceneId = "chapter3"
       /\ \E d \in {100000, 405000}, now \in Clock : Chapter3Update(d, 0, now)
    \/ /\ state.currentSceneId = "chapter3"
       /\ ComputeFinalScores

SpecRun == EngagementInit /\ [][RunNext]_vars

\* C34: the ids of the records of the executed log are pairwise distinct over
\* the whole run, across the open engagement phase and the adaptive phase.
C34_RecordIdsDistinct ==
    \A i, j \in 1..Len(state.engagements) :
        i # j => state.engagements[i].id # state.engagements[j].id

\* the records of the accounts of the current phase
RecordsOfPhase ==
    SelectSeq(state.engagements,
              LAMBDA e : \E i \in 1..Len(state.accounts) : state.accounts[i].id = e.accountId)

\* what the code gives: within one phase the ids are 1, 2, ... in log order
IdsCountUpPerPhase ==
    state.currentSceneId \in {"chapter1", "chapter3"} =>
        \A i \in 1..Len(RecordsOfPhase) : RecordsOfPhase[i].id = i

\* C40: in the summary of the adaptive phase totalEngagements is the number
\* of actions executed in the adaptive phase, baselineEngagements counts those
\* executed before the swap minute and postChangeEngagements those executed
\* at or after it.
C40_SummaryPartitionsAdaptivePhase ==
    (lastResult.op = "scores" /\ state.accounts = AdaptiveFleet) =>
        /\ lastResult.chapter3.totalEngagements = Len(RecordsOfPhase)
        /\ lastResult.chapter3.baselineEngagements =
               Cardinality({i \in 1..Len(RecordsOfPhase) :
                               RecordsOfPhase[i].inGameMinute < RULE_CHANGE_MINUTE})
        /\ lastResult.chapter3.postChangeEngagements =
               Cardinality({i \in 1..Len(RecordsOfPhase) :
                               RecordsOfPhase[i].inGameMinute >= RULE_CHANGE_MINUTE})

\* what the code gives: the records of the whole log are sifted by the fixed
\* minutes 180 and 220, whichever phase executed them
SummarySiftsByFixedMinutes ==
    lastResult.op = "scores" =>
        /\ lastResult.chapter3.totalEngagements =
               Cardinality({i \in 1..Len(state.engagements) :
                               state.engagements[i].inGameMinute >= 180})
        /\ lastResult.chapter3.postChangeEngagements =
               Cardinality({i \in 1..Len(state.engagements) :
                               state.engagements[i].inGameMinute >= 220})
        /\ lastResult.chapter3.totalEngagements =
               lastResult.chapter3.baselineEngagements + lastResult.chapter3.postChangeEngagements

---------------------------------------------------------------------------
(* Account statuses across advance calls                                   *)

\* a fleet that went through triage: one account parked, one discarded
TriagedFleet ==
    Fleet \o << [Account("acc_5", "frontline", {}, 40, <<>>) EXCEPT !.status = "parked"],
                [Account("acc_6", "mid", {}, 40, <<>>) EXCEPT !.status = "discarded"] >>

StatusInit ==
    /\ state = initChapter1([NewRun EXCEPT !.currentSceneId = "chapter1",
                                           !.accounts = TriagedFleet, !.tweets = Timeline], 0)
    /\ lastResult = NoResult
    /\ chapter3State = createDefaultState
    /\ timeBudget = 0
    /\ currentAccountIndex = 0
    /\ triageQueue = <<>>
    /\ processedAccounts = {}
    /\ isComplete = FALSE
    /\ hist = NoHistory

StatusNext ==
    \/ \E t \in {"tweet_1", "tweet_2"} : ScheduleClick(FullSelection, AllActions, t)
    \/ ScheduleClick(<< "acc_2", "acc_3", "acc_5" >>, << "like", "retweet" >>, "tweet_3")
    \/ \E d \in Deltas, r \in Randoms, now \in Clock : Chapter1Update(d, r, now)

SpecStatus == StatusInit /\ [][StatusNext]_vars

ActiveCount(statuses) == Cardinality({i \in DOMAIN statuses : statuses[i] = "active"})

\* C35: an advance call changes account statuses only from active to flagged
\* or from active to banned; an account that is flagged, banned, parked or
\* discarded keeps its status, so the number of active accounts never
\* increases.
C35_OnlyActiveLosesStatus ==
    lastResult.op = "update" =>
        /\ \A i \in 1..Len(state.accounts) :
               state.accounts[i].status # lastResult.statusBefore[i] =>
                   /\ lastResult.statusBefore[i] = "active"
                   /\ state.accounts[i].status \in {"flagged", "banned"}
        /\ ActiveCount(StatusOf(state)) <= ActiveCount(lastResult.statusBefore)

\* an advance call that took one account from active to banned or flagged
\* while a parked, a discarded and an already penalised account kept theirs
C35_Witness ==
    /\ lastResult.op = "update"
    /\ \E i \in 1..Len(state.accounts) :
           /\ lastResult.statusBefore[i] = "active"
           /\ state.accounts[i].status \in {"flagged", "banned"}
    /\ \E i \in 1..Len(state.accounts) :
           /\ lastResult.statusBefore[i] \in {"flagged", "banned"}
           /\ state.accounts[i].status = lastResult.statusBefore[i]
    /\ \E i \in 1..Len(state.accounts) :
           lastResult.statusBefore[i] = "parked" /\ state.accounts[i].status = "parked"
    /\ \E i \in 1..Len(state.accounts) :
           lastResult.statusBefore[i] = "discarded" /\ state.accounts[i].status = "discarded"

---------------------------------------------------------------------------
(* Minutes with more queued actions than the cap                           *)

\* the action at place i of the queue before the call is in the sequence q
IsIn(q, i) ==
    \E j \in 1..Len(q) : Triple(q[j]) = Triple(lastResult.queueBefore[i])

\* C36: when more than MAX_ACTIONS_PER_MINUTE actions are queued for one
\* minute, exactly the first 15 in queue order are taken for execution and
\* the others are removed from the queue for good: nothing due stays queued,
\* nothing beyond the cap reaches the executed log, every record comes from
\* one of the first 15 of its minute, and a notice of the drop is returned.
C36_CapDropsTheRest ==
    lastResult.op = "update" =>
        /\ \A i \in DuePlaces :
               /\ ~IsIn(state.engagementQueue, i)
               /\ ~WithinCap(i) => ~IsIn(state.engagements, i)
               /\ (WithinCap(i) /\ StatusBeforeOf(lastResult.queueBefore[i].accountId) = "active")
                      => IsIn(Appended, i)
        /\ \A j \in 1..Len(Appended) :
               \E i \in DuePlaces :
                   /\ WithinCap(i)
                   /\ Triple(lastResult.queueBefore[i]) = Triple(Appended[j])
                   /\ lastResult.queueBefore[i].scheduledMinute = Appended[j].inGameMinute
        /\ (\E i \in DuePlaces : ~WithinCap(i)) =>
               \E n \in 1..Len(lastResult.notices) : lastResult.notices[n].kind = "dropped"

\* a minute with more than 15 actions due: 15 records appended, one action of
\* an active account gone from the queue without a record
C36_Witness ==
    /\ lastResult.op = "update"
    /\ Len(Appended) = MAX_ACTIONS_PER_MINUTE
    /\ \E i \in DuePlaces :
           /\ ~WithinCap(i)
           /\ StatusBeforeOf(lastResult.queueBefore[i].accountId) = "active"
           /\ ~IsIn(state.engagements, i)
           /\ ~IsIn(state.engagementQueue, i)

---------------------------------------------------------------------------
(* The order of the scenes                                                 *)
(* hist.timers counts the setTimeout callbacks that are pending (destroy   *)
(* does not clear them), hist.entered lists the scenes Game.loadScene has   *)
(* initialised.                                                             *)

\* variant: after the last scene comes the first again
getNextScene_wraps(s) ==
    LET currentIndex == CHOOSE i \in 1..Len(SceneOrder) : SceneOrder[i] = s.currentSceneId
    IN  << SceneOrder[(currentIndex % Len(SceneOrder)) + 1] >>

\* <<>> is null
getNextScene(s) ==
    LET currentIndex == CHOOSE i \in 1..Len(SceneOrder) : SceneOrder[i] = s.currentSceneId
    IN  IF currentIndex < Len(SceneOrder) THEN << SceneOrder[currentIndex + 1] >> ELSE <<>>

\* frame deltas that bring a chapter to its end in a few frames
SceneDeltas == {405000}

\* GameState.advanceToNextScene with Game.loadScene as the scene-change
\* callback: the init of the scene that is entered; by names the caller
AdvanceToNextScene(by, timersLeft, now) ==
    LET next == getNextScene(state)
    IN  /\ lastResult' = [op |-> "advance", by |-> by, from |-> state.currentSceneId,
                          before |-> state]
        /\ IF next = <<>>
           THEN /\ hist' = [hist EXCEPT !.timers = timersLeft]
                /\ UNCHANGED <<state, ModuleState, isComplete>>
           ELSE /\ hist' = [hist EXCEPT !.timers = timersLeft, !.entered = Append(@, next[1])]
                /\ isComplete' = FALSE
                /\ IF next[1] = "chapter1"
                   THEN /\ state' = initChapter1([state EXCEPT !.currentSceneId = next[1],
                                                               !.accounts = Fleet,
                                                               !.tweets = Timeline], now)
                        /\ UNCHANGED ModuleState
                   ELSE IF next[1] = "chapter2"
                   THEN \E q \in Shuffles([i \in 1..Len(TriageCandidates(state)) |->
                                              TriageCandidates(state)[i].id]) :
                        \E r \in {initChapter2([state EXCEPT !.currentSceneId = next[1]], q, now)} :
                            /\ state' = r.state
                            /\ timeBudget' = r.timeBudget
                            /\ currentAccountIndex' = r.currentAccountIndex
                            /\ processedAccounts' = r.processedAccounts
                            /\ triageQueue' = r.triageQueue
                            /\ UNCHANGED chapter3State
                   ELSE IF next[1] = "chapter3"
                   THEN \E r \in {initChapter3([state EXCEPT !.currentSceneId = next[1],
                                                             !.accounts = AdaptiveFleet,
                                                             !.tweets = AdaptiveTimeline], now)} :
                            /\ state' = r.state
                            /\ chapter3State' = r.chapter3State
                            /\ UNCHANGED <<timeBudget, currentAccountIndex, triageQueue,
                                           processedAccounts>>
                   ELSE /\ state' = [state EXCEPT
                                        !.currentSceneId = next[1],
                                        !.derivedScores = computeDerivedScores(exportGameRun(state))]
                        /\ UNCHANGED ModuleState

\* the start button of the intro, KeyN of Chapter1Scene and Chapter3Scene
KeyAdvance(now) ==
    /\ state.currentSceneId \in {"intro", "chapter1", "chapter3"}
    /\ AdvanceToNextScene("key", hist.timers, now)

\* a pending setTimeout(() => this.state.advanceToNextScene(), ...) fires
TimerFires(now) ==
    /\ hist.timers > 0
    /\ AdvanceToNextScene("timer", hist.timers - 1, now)

\* Chapter1Scene.update with its completion check
Chapter1Frame(deltaMs, random, now) ==
    /\ state.currentSceneId = "chapter1"
    /\ ~isComplete
    /\ \E r \in {updateChapter1(state, deltaMs, random, now)} :
           /\ state' = r.state
           /\ isComplete' = (r.state.inGameMinutes >= 4 * 180)
           /\ hist' = [hist EXCEPT !.timers = IF r.state.inGameMinutes >= 4 * 180
                                              THEN @ + 1 ELSE @]
    /\ lastResult' = [op |-> "frame"]
    /\ UNCHANGED ModuleState

\* the Space key of Chapter2Scene
SkipKey ==
    /\ state.currentSceneId = "chapter2"
    /\ currentAccountIndex < Len(triageQueue)
    /\ currentAccountIndex' = skipAccount(currentAccountIndex)
    /\ lastResult' = [op |-> "skipAccount"]
    /\ UNCHANGED <<state, timeBudget, chapter3State, triageQueue, processedAccounts,
                   isComplete, hist>>

\* Chapter2Scene.update with its completion check
Chapter2Frame ==
    /\ state.currentSceneId = "chapter2"
    /\ ~isComplete
    /\ isComplete' = (isTimeExhausted(timeBudget)
                        \/ getCurrentAccount(triageQueue, currentAccountIndex) = <<>>)
    /\ hist' = [hist EXCEPT !.timers = IF isComplete' THEN @ + 1 ELSE @]
    /\ lastResult' = [op |-> "frame"]
    /\ UNCHANGED <<state, ModuleState>>

\* Chapter3Scene.update with its completion check
Chapter3Frame(deltaMs, random, now) ==
    /\ state.currentSceneId = "chapter3"
    /\ ~isComplete
    /\ \E c \in {RuleChangeCheck(state, chapter3State, now)} :
       \E r \in {updateChapter3(c.state, c.chapter3State, deltaMs, random, now)} :
           /\ state' = r.state
           /\ chapter3State' = IF c.chapter3State.currentPhase = "post_change"
                               THEN capturePostChangeMetrics(r.state, c.chapter3State)
                               ELSE c.chapter3State
           /\ isComplete' = isChapterComplete(r.state)
           /\ hist' = [hist EXCEPT !.timers = IF isChapterComplete(r.state) THEN @ + 1 ELSE @]
    /\ lastResult' = [op |-> "frame"]
    /\ UNCHANGED <<timeBudget, currentAccountIndex, triageQueue, processedAccounts>>

ScenesInit ==
    /\ state = NewRun
    /\ lastResult = NoResult
    /\ chapter3State = createDefaultState
    /\ timeBudget = 0
    /\ currentAccountIndex = 0
    /\ triageQueue = <<>>
    /\ processedAccounts = {}
    /\ isComplete = FALSE
    /\ hist = [NoHistory EXCEPT !.entered = << "intro" >>]

ScenesNext ==
    \/ \E now \in Clock : KeyAdvance(now)
    \/ \E now \in Clock : TimerFires(now)
    \/ \E d \in SceneDeltas, now \in Clock : Chapter1Frame(d, 0, now)
    \/ SkipKey
    \/ Chapter2Frame
    \/ \E d \in SceneDeltas, now \in Clock : Chapter3Frame(d, 0, now)

SpecScenes == ScenesInit /\ [][ScenesNext]_vars

\* C37: the scenes are entered in the order intro, chapter1, chapter2,
\* chapter3, summary, each at most once and none skipped, however the delayed
\* auto-advance timers and the key handlers interleave; an advance call in
\* the summary changes nothing.
C37_SceneOrder ==
    /\ Len(hist.entered) <= Len(SceneOrder)
    /\ hist.entered = SubSeq(SceneOrder, 1, Len(hist.entered))
    /\ state.currentSceneId = hist.entered[Len(hist.entered)]
    /\ (lastResult.op = "advance" /\ lastResult.from = "summary") => state = lastResult.before

\* the timer of the completed adaptive phase fires in the summary, which the
\* key handler had entered before; all five scenes were entered
C37_Witness ==
    /\ lastResult.op = "advance"
    /\ lastResult.by = "timer"
    /\ lastResult.from = "summary"
    /\ hist.entered = SceneOrder

---------------------------------------------------------------------------
(* The pointer and the decision log of the triage phase                    *)

\* the operations that record the pointer they found did not move it back
PointerNotBack ==
    lastResult.op \in {"makeTriageDecision", "skipAccount", "revealHistoryFlag"} =>
        currentAccountIndex >= lastResult.before.currentAccountIndex

OneDecisionPerAccount ==
    \A i, j \in 1..Len(state.triageDecisions) :
        i # j => state.triageDecisions[i].accountId # state.triageDecisions[j].accountId

---------------------------------------------------------------------------
(* Simulated time and the minutes of the executed log                      *)

\* C39: within one engagement phase and for non-negative deltas, simulated
\* time never decreases, the execution minutes of the executed log are
\* non-decreasing in log order, and every record's execution minute is at
\* most floor(inGameMinutes) and is the target minute of its action.
C39_TimeAndLogMinutes ==
    ~hist.negativeDelta =>
        /\ lastResult.op = "update" => state.inGameMinutes >= lastResult.timeBefore
        /\ \A i, j \in 1..Len(state.engagements) :
               i < j => state.engagements[i].inGameMinute <= state.engagements[j].inGameMinute
        /\ \A i \in 1..Len(state.engagements) :
               state.engagements[i].inGameMinute <= FloorMinute(state.inGameMinutes)
        /\ lastResult.op = "update" =>
               \A j \in 1..Len(Appended) :
                   \E i \in 1..Len(lastResult.queueBefore) :
                       /\ Triple(lastResult.queueBefore[i]) = Triple(Appended[j])
                       /\ lastResult.queueBefore[i].scheduledMinute = Appended[j].inGameMinute

\* an advance call over several minutes that appended records of two of
\* them to a log that held records of an earlier call
C39_Witness ==
    /\ lastResult.op = "update"
    /\ lastResult.logBefore > 0
    /\ state.inGameMinutes > lastResult.timeBefore + 4
    /\ \E i, j \in 1..Len(Appended) : Appended[i].inGameMinute < Appended[j].inGameMinute
    /\ Appended[1].inGameMinute < FloorMinute(state.inGameMinutes)

==========================================================================
